---- MODULE Spec2Model ----
(***************************************************************************)
(* Oracle-of-the-Moon card bot (src/oracle_bot.py): the per-session deck   *)
(* and undo buffer, the reading views with their reveal callbacks, and the *)
(* journal kept in a remote JSON file.                                     *)
(*                                                                         *)
(* A command handler runs without interruption between two awaits, so one  *)
(* action is one such stretch of a handler.  random.shuffle,               *)
(* random.choice, the network and the users are choices made with \E.      *)
(***************************************************************************)
EXTENDS Naturals, Integers, Sequences, FiniteSets, TLC

\* ---------------------------------------------------------------- bounds
\* len(CARDS) is 21; the model's catalog is smaller.
NumCards == 3
\* /draw accepts 1..5 cards; the model's limit, scaled with the catalog.
MaxDraw == 2
\* /custom_spread accepts 1..10 positions; the model's limit.
MaxPositions == 3
\* Draw handlers, views and saved undo lists there are at one time.
MaxReadings == 3
\* Discord users and guilds that send interactions.
NumUsers == 2
NumGuilds == 1

\* ------------------------------------------------------------- constants
\* A built-in spread has three positions; /reading_for "draw" takes three.
SpreadSize == 3
ReadingForDrawCount == 3
\* interaction.guild_id of a direct message (None).
NoGuild == 0
\* view ids start at 1; 0 in undo_state[g].list: a list no view shares.
NoList == 0

Cards == 1..NumCards
Guilds == 1..NumGuilds
Users == 101..(100 + NumUsers)
ReadingIds == 1..MaxReadings

VARIABLES
    deck_state,     \* guild_id -> list of card names still in the deck
    undo_state,     \* guild_id -> [cards: the list saved for undo,
                    \*              list: the id of the reading whose card
                    \*              list is this same list object]
    draws,          \* id -> a draw handler suspended at response.defer()
    views,          \* id -> a CardRevealView
    drawn,          \* history: guild_id -> cards drawn and not returned
                    \*          since the deck was last made whole
    lastOp,         \* history: guild_id -> the last deck operation: its
                    \*          name, and for a draw or clarifier the deck it
                    \*          found and whether it reshuffled
    lastReply,      \* history: the last answer a deck command gave before
                    \*          any await, or that it deferred its answer
    dealt,          \* history: id -> the hand as it was drawn
    stopped,        \* id -> a CardRevealView whose timeout has passed, its
                    \*       buttons still on the message
    callbacks,      \* <<id, index>> -> a reveal callback suspended at an await
    last_readings,  \* user_id -> reading_data of the last completed reading
    reading_stats,  \* the module-level statistics dict
    today,          \* datetime.utcnow().date(), as a day number
    completed,      \* history: id -> how often the view saved its reading
    lastEvent,      \* history: the last click on a button and its outcome
    remote,         \* journals.json in the GitHub repository: NoFile or
                    \* the list of entries it holds
    GITHUB_TOKEN,   \* os.getenv('GITHUB_TOKEN') is set
    journal_call,   \* the /journal handler between its GET and its PUT
    lastJournal,    \* history: how the last /journal ended
    image_cache,    \* the cache keys of image_cache
    composite       \* history: the last call of create_composite_image,
                    \*          what it was given and what it returned

deckVars == <<deck_state, undo_state, drawn, lastOp, lastReply>>
readingVars == <<draws, views, dealt, stopped>>
revealVars ==
    <<callbacks, last_readings, reading_stats, today, completed, lastEvent>>
journalVars == <<remote, GITHUB_TOKEN, journal_call, lastJournal>>
renderVars == <<image_cache, composite>>
vars == <<deck_state, undo_state, draws, views, drawn, lastOp, lastReply, dealt,
          stopped,
          callbacks, last_readings, reading_stats, today, completed, lastEvent,
          remote, GITHUB_TOKEN, journal_call, lastJournal, image_cache,
          composite>>

\* ------------------------------------------------------------ sequences
Range(s) == {s[i] : i \in DOMAIN s}
NoDup(s) == \A i, j \in DOMAIN s : s[i] = s[j] => i = j
IsPerm(s, S) == NoDup(s) /\ Range(s) = S /\ Len(s) = Cardinality(S)
Perms(S) == {s \in [1..Cardinality(S) -> S] : Range(s) = S}
Put(f, k, v) == [x \in DOMAIN f \cup {k} |-> IF x = k THEN v ELSE f[x]]
Drop(f, k) == [x \in DOMAIN f \ {k} |-> f[x]]
Empty == [x \in {} |-> 0]

\* ------------------------------------------------ deck and undo buffer
\* The two module-level dicts, handled together: D.deck is deck_state and
\* D.undo is undo_state.
Store == [deck |-> deck_state, undo |-> undo_state]

\* list(CARDS.keys()) after random.shuffle: any permutation.
ShuffledDecks == Perms(Cards)

\* get_deck: `p` is what random.shuffle leaves if the deck is created.
get_deck(D, g, p) ==
    IF g \in DOMAIN D.deck THEN D ELSE [D EXCEPT !.deck = Put(@, g, p)]

\* The shuffles get_deck can make for g: one choice when the deck exists.
FreshDecks(D, g) == IF g \in DOMAIN D.deck THEN {<<>>} ELSE ShuffledDecks

\* shuffle_deck clearing undo_state as a whole.
shuffle_deck_clears_every_undo(D, g, p) ==
    [deck |-> Put(D.deck, g, p), undo |-> Empty]

\* shuffle_deck without `del undo_state[guild_id]`.
shuffle_deck_keeps_undo(D, g, p) == [D EXCEPT !.deck = Put(@, g, p)]

\* shuffle_deck deleting undo_state[guild_id] only when its list is empty.
shuffle_deck_clears_empty_undo(D, g, p) ==
    [deck |-> Put(D.deck, g, p),
     undo |-> IF g \in DOMAIN D.undo /\ Len(D.undo[g].cards) = 0
              THEN Drop(D.undo, g) ELSE D.undo]

shuffle_deck(D, g, p) ==
    [deck |-> Put(D.deck, g, p), undo |-> Drop(D.undo, g)]

\* save_undo_state adding the cards to the list it finds.
save_undo_state_extends(D, g, cards, list) ==
    [D EXCEPT !.undo = Put(@, g,
        [cards |-> (IF g \in DOMAIN D.undo THEN D.undo[g].cards ELSE <<>>)
                       \o cards,
         list |-> list])]

\* save_undo_state doing nothing.
save_undo_state_skipped(D, g, cards, list) == D

save_undo_state(D, g, cards, list) ==
    [D EXCEPT !.undo = Put(@, g, [cards |-> cards, list |-> list])]

can_undo(D, g) == g \in DOMAIN D.undo /\ Len(D.undo[g].cards) > 0

\* undo_draw with `for card in cards` in place of `reversed(cards)`.
undo_draw_unreversed(D, g, p) ==
    IF ~can_undo(D, g) THEN D
    ELSE LET cards == D.undo[g].cards
             D1 == get_deck(D, g, p)
         IN  [deck |-> Put(D1.deck, g,
                  [i \in 1..Len(cards) |-> cards[Len(cards) + 1 - i]]
                      \o D1.deck[g]),
              undo |-> Drop(D1.undo, g)]

\* undo_draw without `del undo_state[guild_id]`.
undo_draw_keeps_buffer(D, g, p) ==
    IF ~can_undo(D, g) THEN D
    ELSE LET D1 == get_deck(D, g, p)
         IN  [D1 EXCEPT !.deck[g] = D.undo[g].cards \o @]

\* undo_draw returning the last card only and keeping the others for undo.
undo_draw_last_card(D, g, p) ==
    IF ~can_undo(D, g) THEN D
    ELSE LET cards == D.undo[g].cards
             D1 == get_deck(D, g, p)
             n == Len(cards)
         IN  [deck |-> Put(D1.deck, g, <<cards[n]>> \o D1.deck[g]),
              undo |-> IF n = 1 THEN Drop(D1.undo, g)
                       ELSE [D1.undo EXCEPT ![g].cards = SubSeq(cards, 1, n - 1)]]

\* undo_draw: the cards go back to the front of the deck, in their order.
undo_draw(D, g, p) ==
    IF ~can_undo(D, g) THEN D
    ELSE LET cards == D.undo[g].cards
             D1 == get_deck(D, g, p)
         IN  [deck |-> Put(D1.deck, g, cards \o D1.deck[g]),
              undo |-> Drop(D1.undo, g)]

\* deck.pop(0), n times.
pop_front(D, g, n) ==
    [D EXCEPT !.deck[g] = SubSeq(@, n + 1, Len(@))]

\* The session id of an interaction: the guild, or the user in a DM.
session_id(guild_id, user) == IF guild_id # NoGuild THEN guild_id ELSE user

\* `len(deck) <= count` in place of `len(deck) < count`.
needs_reshuffle_early(deck, count) == Len(deck) <= count

\* `len(deck) < count`: the deck cannot serve the draw.
needs_reshuffle(deck, count) == Len(deck) < count

\* The part of every drawing command between get_deck and save_undo_state:
\* p1 is the shuffle of a deck made on first access, p2 the reshuffle,
\* list the id of the list object saved for undo.
take_cards(D, g, count, p1, p2, list) ==
    LET D1 == get_deck(D, g, p1)
        reshuffle == needs_reshuffle(D1.deck[g], count)
        D2 == IF reshuffle THEN get_deck(shuffle_deck(D1, g, p2), g, p2) ELSE D1
        cards == SubSeq(D2.deck[g], 1, count)
        D3 == pop_front(D2, g, count)
    IN  [D |-> save_undo_state(D3, g, cards, list),
         cards |-> cards,
         reshuffle |-> reshuffle,
         before |-> D1.deck[g]]

\* The reshuffles a draw of count cards from g can make.
Reshuffles(D, g, count, p1) ==
    IF needs_reshuffle(get_deck(D, g, p1).deck[g], count)
    THEN ShuffledDecks ELSE {<<>>}

\* pull_clarifier always saving a new undo list.
take_clarifier_replaces(D, g, p1, p2) ==
    LET D1 == get_deck(D, g, p1)
        reshuffle == needs_reshuffle(D1.deck[g], 1)
        D2 == IF reshuffle THEN get_deck(shuffle_deck(D1, g, p2), g, p2) ELSE D1
        card == D2.deck[g][1]
        D3 == pop_front(D2, g, 1)
    IN  [D |-> save_undo_state(D3, g, <<card>>, NoList),
         cards |-> <<card>>,
         reshuffle |-> reshuffle,
         before |-> D1.deck[g],
         joins |-> FALSE,
         list |-> NoList]

\* pull_clarifier between get_deck and the update of undo_state: the card
\* joins the list undo_state holds when can_undo, else a new list is saved.
take_clarifier(D, g, p1, p2) ==
    LET D1 == get_deck(D, g, p1)
        reshuffle == needs_reshuffle(D1.deck[g], 1)
        D2 == IF reshuffle THEN get_deck(shuffle_deck(D1, g, p2), g, p2) ELSE D1
        card == D2.deck[g][1]
        D3 == pop_front(D2, g, 1)
        joins == can_undo(D3, g)
    IN  [D |-> IF joins
               THEN [D3 EXCEPT !.undo[g].cards = Append(@, card)]
               ELSE save_undo_state(D3, g, <<card>>, NoList),
         cards |-> <<card>>,
         reshuffle |-> reshuffle,
         before |-> D1.deck[g],
         joins |-> joins,
         list |-> IF joins THEN D3.undo[g].list ELSE NoList]

\* undo_and_shuffle shuffling the deck as it was, the undone cards lost.
undo_then_shuffle_remaining(D, g, p) ==
    LET D1 == get_deck(undo_draw(D, g, <<>>), g, <<>>)
        kept(c) == c \in Range(D.deck[g])
    IN  [D1 EXCEPT !.deck[g] = SelectSeq(p, kept)]

\* undo_and_shuffle after its can_undo check: undo_draw, then random.shuffle
\* of the list get_deck returns; p is the order the shuffle leaves.
undo_then_shuffle(D, g, p) ==
    LET D1 == get_deck(undo_draw(D, g, <<>>), g, <<>>)
    IN  [D1 EXCEPT !.deck[g] = p]

\* The orders random.shuffle(deck) can leave after the undo.
ShufflesAfterUndo(D, g) ==
    LET d == undo_draw(D, g, <<>>).deck[g]
    IN  {p \in [1..Len(d) -> Range(d)] : Range(p) = Range(d)}

\* ------------------------------------------------------------- history
\* after: the operation before this one; prev: when a clarifier follows a
\* draw, the deck that draw found.
Log(g, op, before, reshuffle) ==
    Put(lastOp, g,
        [op |-> op, before |-> before, reshuffle |-> reshuffle,
         after |-> IF g \in DOMAIN lastOp THEN lastOp[g].op ELSE "none",
         prev |-> IF g \in DOMAIN lastOp /\ op = "clarifier"
                     /\ lastOp[g].op = "draw"
                  THEN lastOp[g].before ELSE <<>>,
         prev_reshuffle |-> g \in DOMAIN lastOp /\ op \in {"clarifier", "undo"}
                            /\ lastOp[g].op = "draw" /\ lastOp[g].reshuffle])
Out(g) == IF g \in DOMAIN drawn THEN drawn[g] ELSE {}

\* What a command answered to session g before its first await.  A drawing
\* command defers its answer and gives it after the composite is made.
NoReply == [session |-> 0, result |-> "none"]
Reply(g, result) == [session |-> g, result |-> result]
Deferred(g) == Reply(g, "Deferred")

\* ------------------------------------------------------ position labels
NoUser == 0
NoQuestion == 0
NoDate == 0
Questions == {1}
CardLabels(n) == [i \in 1..n |-> <<"Card", i>>]
AnswerLabel == <<"Answer", 0>>
ClarifierLabel == <<"Clarifier", 0>>
SpreadTypes == {"past_present_future", "mind_body_spirit",
                "situation_action_outcome"}
SpreadLabels(t) == [i \in 1..SpreadSize |-> <<t, i>>]
\* The position names a user gives /custom_spread, after the split and strip.
CustomLabels(n) == [i \in 1..n |-> <<"Custom", i>>]
Flips(n) == [1..n -> BOOLEAN]

\* ------------------------------------------------------------ commands
\* The ids no draw handler, view or saved undo list goes by.
FreeIds ==
    ReadingIds \ (DOMAIN draws \cup DOMAIN views \cup DOMAIN stopped
                  \cup {undo_state[g].list : g \in DOMAIN undo_state})
NewId == CHOOSE id \in FreeIds : \A other \in FreeIds : id <= other

\* What every drawing command does up to `await interaction.response.defer()`:
\* the cards leave the deck, undo_state holds them, the coins are flipped.
\* shares: the list saved for undo is the list later given to the view.
begin_reading(g, u, cmd, labels, flips, question, reading_type, for_user, shares) ==
    /\ FreeIds # {}
    /\ \E p1 \in FreshDecks(Store, g) :
       \E p2 \in Reshuffles(Store, g, Len(labels), p1) :
       \E t \in {take_cards(Store, g, Len(labels), p1, p2,
                             IF shares THEN NewId ELSE NoList)} :
              /\ deck_state' = t.D.deck
              /\ undo_state' = t.D.undo
              /\ draws' = Put(draws, NewId,
                     [guild |-> g, user |-> u, cmd |-> cmd, cards |-> t.cards,
                      positions |-> labels, reversed_cards |-> flips,
                      question |-> question, reading_type |-> reading_type,
                      for_user |-> for_user, reshuffle |-> t.reshuffle])
              /\ dealt' = Put(dealt, NewId,
                     [cards |-> t.cards, positions |-> labels,
                      reversed_cards |-> flips])
              /\ drawn' = Put(drawn, g,
                     (IF t.reshuffle THEN {} ELSE Out(g)) \cup Range(t.cards))
              /\ lastOp' = Log(g, "draw", t.before, t.reshuffle)
    /\ lastReply' = Deferred(g)
    /\ UNCHANGED <<views, stopped, revealVars, journalVars, renderVars>>

draw_valid(count) == ~(count < 1 \/ count > MaxDraw)

\* /draw with a count in range.
draw(guild_id, u, count, flips) ==
    /\ draw_valid(count)
    /\ begin_reading(session_id(guild_id, u), u, "draw", CardLabels(count),
                     flips, NoQuestion, "draw", NoUser, TRUE)

\* /draw with a count out of range: the reply, and nothing else.
draw_rejected(guild_id, u, count) ==
    /\ ~draw_valid(count)
    /\ lastReply' = Reply(session_id(guild_id, u), "ValidationError")
    /\ UNCHANGED <<deck_state, undo_state, drawn, lastOp, readingVars,
                   revealVars, journalVars, renderVars>>

\* /ask: one card, a new list [drawn_card] for undo and another for the view.
ask(guild_id, u, question, flips) ==
    begin_reading(session_id(guild_id, u), u, "ask", <<AnswerLabel>>, flips,
                  question, "draw", NoUser, FALSE)

spread(guild_id, u, spread_type, flips) ==
    begin_reading(session_id(guild_id, u), u, "spread", SpreadLabels(spread_type),
                  flips, NoQuestion, "draw", NoUser, TRUE)

positions_valid(n) == ~(n < 1) /\ ~(n > MaxPositions)

custom_spread(guild_id, u, n, flips) ==
    /\ positions_valid(n)
    /\ begin_reading(session_id(guild_id, u), u, "custom_spread", CustomLabels(n),
                     flips, NoQuestion, "draw", NoUser, TRUE)

\* /custom_spread with no position or too many: get_deck has already run.
custom_spread_rejected(guild_id, u, n) ==
    /\ ~positions_valid(n)
    /\ \E p1 \in FreshDecks(Store, session_id(guild_id, u)) :
          deck_state' = get_deck(Store, session_id(guild_id, u), p1).deck
    /\ lastReply' = Reply(session_id(guild_id, u), "ValidationError")
    /\ UNCHANGED <<undo_state, drawn, lastOp, readingVars, revealVars,
                   journalVars, renderVars>>

\* /reading_for: reading_type is "draw", "ask" or a spread type.
reading_for_labels(reading_type) ==
    IF reading_type = "draw" THEN CardLabels(ReadingForDrawCount)
    ELSE IF reading_type = "ask" THEN <<AnswerLabel>>
    ELSE SpreadLabels(reading_type)

reading_for(guild_id, u, target, reading_type, flips) ==
    begin_reading(session_id(guild_id, u), u, "reading_for",
                  reading_for_labels(reading_type), flips, NoQuestion,
                  reading_type, target, TRUE)

\* /pull_clarifier up to the defer.  The append at `undo_state[guild_id]
\* .append(drawn_card)` changes the list object, so also the card list of the
\* draw handler or view that holds the same list.
pull_clarifier(guild_id, u, flips) ==
    LET g == session_id(guild_id, u) IN
    /\ FreeIds # {}
    /\ \E p1 \in FreshDecks(Store, g) :
       \E p2 \in Reshuffles(Store, g, 1, p1) :
       \E t \in {take_clarifier(Store, g, p1, p2)} :
              /\ deck_state' = t.D.deck
              /\ undo_state' = t.D.undo
              /\ draws' = Put(
                     IF t.list \in DOMAIN draws
                     THEN [draws EXCEPT ![t.list].cards = Append(@, t.cards[1])]
                     ELSE draws,
                     NewId,
                     [guild |-> g, user |-> u, cmd |-> "pull_clarifier",
                      cards |-> t.cards, positions |-> <<ClarifierLabel>>,
                      reversed_cards |-> flips, question |-> NoQuestion,
                      reading_type |-> "draw", for_user |-> NoUser,
                      reshuffle |-> t.reshuffle])
              /\ views' = IF t.list \in DOMAIN views
                          THEN [views EXCEPT ![t.list].cards = Append(@, t.cards[1])]
                          ELSE views
              /\ dealt' = Put(dealt, NewId,
                     [cards |-> t.cards, positions |-> <<ClarifierLabel>>,
                      reversed_cards |-> flips])
              /\ drawn' = Put(drawn, g,
                     (IF t.reshuffle THEN {} ELSE Out(g)) \cup Range(t.cards))
              /\ lastOp' = Log(g, "clarifier", t.before, t.reshuffle)
    /\ lastReply' = Deferred(g)
    /\ UNCHANGED <<stopped, revealVars, journalVars, renderVars>>

\* /undo with something to undo.
undo(guild_id, u) ==
    LET g == session_id(guild_id, u) IN
    /\ can_undo(Store, g)
    /\ \E D \in {undo_draw(Store, g, <<>>)} :
           /\ deck_state' = D.deck
           /\ undo_state' = D.undo
           /\ drawn' = Put(drawn, g, Out(g) \ Range(undo_state[g].cards))
           /\ lastOp' = Log(g, "undo", <<>>, FALSE)
    /\ lastReply' = Reply(g, "Undone")
    /\ UNCHANGED <<readingVars, revealVars, journalVars, renderVars>>

\* /undo and /undo_and_shuffle with nothing to undo: the reply only.
undo_rejected(guild_id, u) ==
    /\ ~can_undo(Store, session_id(guild_id, u))
    /\ lastReply' = Reply(session_id(guild_id, u), "NoUndoAvailable")
    /\ UNCHANGED <<deck_state, undo_state, drawn, lastOp, readingVars,
                   revealVars, journalVars, renderVars>>

undo_and_shuffle(guild_id, u) ==
    LET g == session_id(guild_id, u) IN
    /\ can_undo(Store, g)
    /\ \E p \in ShufflesAfterUndo(Store, g) :
       \E D \in {undo_then_shuffle(Store, g, p)} :
              /\ deck_state' = D.deck
              /\ undo_state' = D.undo
    /\ drawn' = Put(drawn, g, Out(g) \ Range(undo_state[g].cards))
    /\ lastOp' = Log(g, "undo_and_shuffle", <<>>, FALSE)
    /\ lastReply' = Reply(g, "Undone")
    /\ UNCHANGED <<readingVars, revealVars, journalVars, renderVars>>

shuffle(guild_id, u) ==
    LET g == session_id(guild_id, u) IN
    /\ \E p \in ShuffledDecks :
       \E D \in {shuffle_deck(Store, g, p)} :
              /\ deck_state' = D.deck
              /\ undo_state' = D.undo
    /\ drawn' = Put(drawn, g, {})
    /\ lastOp' = Log(g, "shuffle", <<>>, FALSE)
    /\ lastReply' = Reply(g, "Shuffled")
    /\ UNCHANGED <<readingVars, revealVars, journalVars, renderVars>>

\* A drawing command after the defer: the all-hidden composite, then the
\* view.  ok: create_composite_image returned the image (None otherwise).
\* CardRevealView.__init__ reads positions[i] for every card, so it raises
\* when the card list has outgrown the labels.
view_of(t) ==
    [guild |-> t.guild, user |-> t.user, cards |-> t.cards,
     positions |-> IF t.positions # <<>> THEN t.positions
                   ELSE CardLabels(Len(t.cards)),
     reversed_cards |-> t.reversed_cards, revealed |-> {},
     question |-> t.question, reading_type |-> t.reading_type,
     for_user |-> t.for_user, shown |-> {}]

view_built(t) == Len(t.cards) <= Len(view_of(t).positions)

send_reading(id, ok) ==
    /\ id \in DOMAIN draws
    /\ views' = IF ok /\ view_built(draws[id])
                THEN Put(views, id, view_of(draws[id])) ELSE views
    /\ draws' = Drop(draws, id)
    /\ dealt' = IF id \in DOMAIN views' THEN dealt ELSE Drop(dealt, id)
    /\ UNCHANGED <<deckVars, stopped, revealVars, journalVars, renderVars>>

\* The view's timeout (timeout=300) has passed with no click: discord.py
\* stops the view and its buttons answer no more.  Every click restarts the
\* timeout, so no callback of the view is still running.
view_stops(id) ==
    /\ id \in DOMAIN views
    /\ \A k \in DOMAIN callbacks : k[1] # id
    /\ views' = Drop(views, id)
    /\ dealt' = Drop(dealt, id)
    /\ completed' = Drop(completed, id)
    /\ UNCHANGED <<deckVars, journalVars, renderVars, draws, callbacks, last_readings, reading_stats,
                   today, lastEvent>>

\* The timeout of a view that is not followed any further.
view_timeout(id) == view_stops(id) /\ UNCHANGED stopped

\* The timeout with the view left out of the views that are kept.
view_expired_forgotten(id) ==
    /\ id \in DOMAIN views
    /\ \A k \in DOMAIN callbacks : k[1] # id
    /\ stopped' = Put(stopped, id, views[id])
    /\ UNCHANGED <<deckVars, journalVars, renderVars, revealVars, draws, views, dealt>>

\* The timeout of a view that is followed: the object stays as it is, its
\* buttons stay on the message (the class has no on_timeout).
view_expired(id) == view_stops(id) /\ stopped' = Put(stopped, id, views[id])

\* ------------------------------------------------------ reveal callback
\* Indices are 1-based here: button card_{i} of the code is index i + 1.
\* One button per card the list held when the view was built.
Buttons(view) == 1..Len(view.positions)

\* The callback without its check `index not in self.revealed`.
is_hidden_never(view, index) == TRUE

\* `index not in self.revealed`
is_hidden(view, index) == index \notin view.revealed

\* The completion test asking for one revealed card, not for all of them
\* (of a hand whose list has not grown).
all_revealed_some(view) ==
    view.revealed # {} /\ Len(view.cards) = Len(view.positions)

\* `len(self.revealed) == len(self.cards)`
all_revealed(view) == Cardinality(view.revealed) = Len(view.cards)

\* reading_data with every position shown as the first one.
reading_data_first_label(view) ==
    [reading_type |-> view.reading_type, question |-> view.question,
     for_user |-> view.for_user,
     cards |-> [i \in 1..Len(view.cards) |->
                   [name |-> view.cards[i], position |-> view.positions[1],
                    reversed |-> view.reversed_cards[i]]]]

\* reading_data, the timestamp left out.
reading_data(view) ==
    [reading_type |-> view.reading_type, question |-> view.question,
     for_user |-> view.for_user,
     cards |-> [i \in 1..Len(view.cards) |->
                   [name |-> view.cards[i], position |-> view.positions[i],
                    reversed |-> view.reversed_cards[i]]]]

personal == "personal"
Bump(f, k) == Put(f, k, IF k \in DOMAIN f THEN f[k] + 1 ELSE 1)
RECURSIVE BumpAll(_, _)
BumpAll(f, cards) ==
    IF cards = <<>> THEN f ELSE BumpAll(Bump(f, Head(cards)), Tail(cards))

track_reading(S, cards, for_user_id, day) ==
    [total_readings |-> S.total_readings + 1,
     readings_by_date |-> Bump(S.readings_by_date, day),
     readings_by_person |->
         Bump(S.readings_by_person,
              IF for_user_id # NoUser THEN for_user_id ELSE personal),
     cards_drawn |-> BumpAll(S.cards_drawn, cards),
     last_reading_date |-> day]

Saved(id) == IF id \in DOMAIN completed THEN completed[id] ELSE 0

\* The callback with `self.revealed.add(index)` moved behind the defer: the
\* click only tests the set.
reveal_click_adds_late(id, index, u) ==
    /\ id \in DOMAIN views
    /\ index \in Buttons(views[id])
    /\ IF is_hidden(views[id], index)
       THEN /\ callbacks' = Put(callbacks, <<id, index>>,
                                [user |-> u, pc |-> "defer", footer |-> {}])
            /\ lastEvent' = [kind |-> "click", view |-> id, index |-> index,
                             result |-> "Accepted"]
            /\ UNCHANGED views
       ELSE /\ lastEvent' = [kind |-> "click", view |-> id, index |-> index,
                             result |-> "AlreadyRevealed"]
            /\ UNCHANGED <<views, callbacks>>
    /\ UNCHANGED <<deckVars, journalVars, renderVars, draws, dealt, stopped, last_readings, reading_stats, today,
                   completed>>

\* A click on button `index` of view `id` by user u, up to the first await:
\* the defer of an accepted reveal, or the notice that the card is revealed.
reveal_click(id, index, u) ==
    /\ id \in DOMAIN views
    /\ index \in Buttons(views[id])
    /\ IF is_hidden(views[id], index)
       THEN /\ views' = [views EXCEPT ![id].revealed = @ \cup {index}]
            /\ callbacks' = Put(callbacks, <<id, index>>,
                                [user |-> u, pc |-> "defer", footer |-> {}])
            /\ lastEvent' = [kind |-> "click", view |-> id, index |-> index,
                             result |-> "Accepted"]
       ELSE /\ lastEvent' = [kind |-> "click", view |-> id, index |-> index,
                             result |-> "AlreadyRevealed"]
            /\ UNCHANGED <<views, callbacks>>
    /\ UNCHANGED <<deckVars, journalVars, renderVars, draws, dealt, stopped, last_readings, reading_stats, today,
                   completed>>

\* The callback resumes after the defer: create_composite_image of the cards
\* revealed by now.  ok: it returned the image; then message.edit is awaited.
reveal_render(id, index, ok) ==
    /\ <<id, index>> \in DOMAIN callbacks
    /\ callbacks[<<id, index>>].pc = "defer"
    /\ callbacks' = IF ok
                    THEN [callbacks EXCEPT ![<<id, index>>] =
                             [@ EXCEPT !.pc = "edit",
                                       !.footer = views[id].revealed]]
                    ELSE Drop(callbacks, <<id, index>>)
    /\ UNCHANGED <<deckVars, journalVars, renderVars, readingVars, last_readings, reading_stats, today,
                   completed, lastEvent>>

\* The callback resumes after message.edit.  edited: the edit went through
\* (it raises otherwise, and the callback ends there).  Then the reading is
\* saved and counted when every card is revealed.
reveal_edited(id, index, edited) ==
    /\ <<id, index>> \in DOMAIN callbacks
    /\ callbacks[<<id, index>>].pc = "edit"
    /\ callbacks' = Drop(callbacks, <<id, index>>)
    /\ views' = IF edited
                THEN [views EXCEPT ![id].shown = callbacks[<<id, index>>].footer]
                ELSE views
    /\ IF edited /\ all_revealed(views[id])
       THEN /\ last_readings' = Put(last_readings, callbacks[<<id, index>>].user,
                                    reading_data(views[id]))
            /\ reading_stats' = track_reading(reading_stats, views[id].cards,
                                              views[id].for_user, today)
            /\ completed' = Put(completed, id, Saved(id) + 1)
       ELSE UNCHANGED <<last_readings, reading_stats, completed>>
    /\ UNCHANGED <<deckVars, journalVars, renderVars, draws, dealt, stopped, today, lastEvent>>

\* A click on a button of a view whose timeout has passed.  discord.py
\* has taken the view out of its store and calls no callback for the
\* click; the member's client shows that the interaction failed.
stopped_click(id, index, u) ==
    /\ id \in DOMAIN stopped
    /\ index \in Buttons(stopped[id])
    /\ lastEvent' = [kind |-> "click", view |-> id, index |-> index,
                     result |-> "SessionExpired"]
    /\ UNCHANGED <<deckVars, journalVars, renderVars, readingVars, callbacks,
                   last_readings, reading_stats, today, completed>>

\* ------------------------------------------------------- journal store
\* The file is a list of entries when there is one.
NoFile == [exists |-> FALSE, content |-> <<>>]
File(content) == [exists |-> TRUE, content |-> content]
NoCall == <<>>
None == <<"None">>

\* The blob sha the contents API gives for the file: it names its content.
Sha(content) == <<"sha", content>>

\* GET /contents/journals.json.  reached: the request got its answer.
StoreGet(R, reached) ==
    IF ~reached THEN [status_code |-> 0]
    ELSE IF ~R.exists THEN [status_code |-> 404]
    ELSE [status_code |-> 200, content |-> R.content, sha |-> Sha(R.content)]

\* PUT /contents/journals.json: the file is created when there is none and
\* no sha is sent, replaced when the sha sent is the sha of the file, and
\* refused otherwise.  data.sha is None when the request carries no sha.
StorePut(R, data, reached) ==
    IF ~reached THEN [status_code |-> 0, remote |-> R]
    ELSE IF ~R.exists
         THEN IF data.sha = None
              THEN [status_code |-> 201, remote |-> File(data.content)]
              ELSE [status_code |-> 422, remote |-> R]
    ELSE IF data.sha = Sha(R.content)
         THEN [status_code |-> 200, remote |-> File(data.content)]
    ELSE IF data.sha = None
         THEN [status_code |-> 422, remote |-> R]
    ELSE [status_code |-> 409, remote |-> R]

\* get_journals_from_github: (journals, sha), or ([], None) when there is no
\* file and on every other answer and failure.
get_journals_from_github(R, reached) ==
    LET response == StoreGet(R, reached)
    IN  IF response.status_code = 200
        THEN <<response.content, response.sha>>
        ELSE <<<<>>, None>>

\* save_journals_to_github without `if sha: data["sha"] = sha`.
save_journals_no_sha(R, token, journals, sha, reached) ==
    IF ~token THEN [ok |-> FALSE, remote |-> R, sent |-> FALSE]
    ELSE LET data == [content |-> journals, sha |-> None]
             response == StorePut(R, data, reached)
         IN  [ok |-> response.status_code \in {200, 201},
              remote |-> response.remote, sent |-> TRUE]

\* save_journals_to_github sending the sha the file has at the time of the
\* PUT (a GET of its own), not the sha its caller fetched.
save_journals_latest_sha(R, token, journals, sha, reached) ==
    IF ~token THEN [ok |-> FALSE, remote |-> R, sent |-> FALSE]
    ELSE LET data == [content |-> journals,
                      sha |-> get_journals_from_github(R, TRUE)[2]]
             response == StorePut(R, data, reached)
         IN  [ok |-> response.status_code \in {200, 201},
              remote |-> response.remote, sent |-> TRUE]

\* save_journals_to_github without `if not GITHUB_TOKEN: return False`.
save_journals_unchecked_token(R, token, journals, sha, reached) ==
    LET data == [content |-> journals, sha |-> sha]
        response == StorePut(R, data, reached)
    IN  [ok |-> response.status_code \in {200, 201},
         remote |-> response.remote, sent |-> TRUE]

\* save_journals_to_github: False without a token, and no request; the sha
\* is sent when there is one; True on 200 and 201.  sent: requests.put
\* was called.
save_journals_to_github(R, token, journals, sha, reached) ==
    IF ~token THEN [ok |-> FALSE, remote |-> R, sent |-> FALSE]
    ELSE LET data == [content |-> journals, sha |-> sha]
             response == StorePut(R, data, reached)
         IN  [ok |-> response.status_code \in {200, 201},
              remote |-> response.remote, sent |-> TRUE]

\* str.lower() on the names used here.
JournalNames == {"moon", "Moon", "tide"}
lower(name) == IF name = "Moon" THEN "moon" ELSE name
Notes == {"n"}

\* The entry /journal builds from the user's last reading.
journal_entry(u, name, notes) ==
    [user_id |-> u, name |-> name,
     reading_type |-> last_readings[u].reading_type,
     question |-> last_readings[u].question,
     for_user |-> last_readings[u].for_user,
     cards |-> last_readings[u].cards, notes |-> notes]

\* `existing` comparing the names as they are written.
existing_case_sensitive(journals, u, name) ==
    \E i \in DOMAIN journals :
        journals[i].user_id = u /\ journals[i].name = name

\* `existing`: an entry of the user with this name, whatever the case.
existing(journals, u, name) ==
    \E i \in DOMAIN journals :
        journals[i].user_id = u /\ lower(journals[i].name) = lower(name)

\* /journal with no reading to save.
journal_rejected(u) ==
    /\ journal_call = NoCall
    /\ u \notin DOMAIN last_readings
    /\ lastJournal' = [result |-> "NoReading", user |-> u]
    /\ UNCHANGED <<deckVars, readingVars, revealVars, renderVars, remote, GITHUB_TOKEN,
                   journal_call>>

\* /journal from its start to the request that saves: the GET, the check of
\* the name, the entry appended to the list fetched.
journal(u, name, notes, reached) ==
    /\ journal_call = NoCall
    /\ u \in DOMAIN last_readings
    /\ LET got == get_journals_from_github(remote, reached)
       IN  IF existing(got[1], u, name)
           THEN /\ lastJournal' = [result |-> "Duplicate", user |-> u]
                /\ UNCHANGED journal_call
           ELSE /\ journal_call' =
                       <<[user |-> u, cmd |-> "journal",
                          entry |-> journal_entry(u, name, notes),
                          journals |-> Append(got[1], journal_entry(u, name, notes)),
                          sha |-> got[2]]>>
                /\ UNCHANGED lastJournal
    /\ UNCHANGED <<deckVars, readingVars, revealVars, renderVars, remote, GITHUB_TOKEN>>

\* What /journal and /journal_delete answer after save_journals_to_github:
\* the entry is saved or deleted, or one notice of failure for its False.
journal_reply(cmd, ok) ==
    IF ~ok THEN "Failed" ELSE IF cmd = "journal" THEN "Saved" ELSE "Deleted"

\* The PUT of /journal or /journal_delete and the reply that follows it.
journal_save(reached) ==
    /\ journal_call # NoCall
    /\ LET call == journal_call[1]
           saved == save_journals_to_github(remote, GITHUB_TOKEN,
                                            call.journals, call.sha, reached)
       IN  /\ remote' = saved.remote
           /\ lastJournal' = [result |-> journal_reply(call.cmd, saved.ok),
                              user |-> call.user]
    /\ journal_call' = NoCall
    /\ UNCHANGED <<deckVars, readingVars, revealVars, renderVars, GITHUB_TOKEN>>

\* The reading /ask leaves in last_readings: card 1 for question 1.
JournalReading ==
    [reading_type |-> "draw", question |-> 1, for_user |-> NoUser,
     cards |-> <<[name |-> 1, position |-> AnswerLabel, reversed |-> FALSE]>>]

\* /journal_delete dropping every entry of the user.
journal_delete_every_entry(u, name, reached) ==
    /\ journal_call = NoCall
    /\ LET got == get_journals_from_github(remote, reached)
           kept(j) == j.user_id # u
       IN  IF ~existing(got[1], u, name)
           THEN /\ lastJournal' = [result |-> "NotFound", user |-> u]
                /\ UNCHANGED journal_call
           ELSE /\ journal_call' =
                       <<[user |-> u, cmd |-> "journal_delete",
                          entry |-> [user_id |-> u, name |-> name],
                          journals |-> SelectSeq(got[1], kept),
                          sha |-> got[2]]>>
                /\ UNCHANGED lastJournal
    /\ UNCHANGED <<deckVars, readingVars, revealVars, renderVars, remote, GITHUB_TOKEN>>

\* /journal_delete from its start to the request that saves: the GET, the
\* search for the entry, the list without the user's entries of that name.
journal_delete(u, name, reached) ==
    /\ journal_call = NoCall
    /\ LET got == get_journals_from_github(remote, reached)
           kept(j) == ~(lower(j.name) = lower(name) /\ j.user_id = u)
       IN  IF ~existing(got[1], u, name)
           THEN /\ lastJournal' = [result |-> "NotFound", user |-> u]
                /\ UNCHANGED journal_call
           ELSE /\ journal_call' =
                       <<[user |-> u, cmd |-> "journal_delete",
                          entry |-> [user_id |-> u, name |-> name],
                          journals |-> SelectSeq(got[1], kept),
                          sha |-> got[2]]>>
                /\ UNCHANGED lastJournal
    /\ UNCHANGED <<deckVars, readingVars, revealVars, renderVars, remote, GITHUB_TOKEN>>

\* Another process of the bot, which has its token and in which the user
\* has completed the same reading, runs /journal to its end on the same
\* file: it takes effect when its PUT is accepted, that is when the file is
\* then as its GET found it.
peer_journal(u, name, notes) ==
    /\ ~existing(get_journals_from_github(remote, TRUE)[1], u, name)
    /\ remote' = save_journals_to_github(
                      remote, TRUE,
                      Append(get_journals_from_github(remote, TRUE)[1],
                             [user_id |-> u, name |-> name,
                              reading_type |-> JournalReading.reading_type,
                              question |-> JournalReading.question,
                              for_user |-> JournalReading.for_user,
                              cards |-> JournalReading.cards, notes |-> notes]),
                      get_journals_from_github(remote, TRUE)[2], TRUE).remote
    /\ UNCHANGED <<deckVars, readingVars, revealVars, renderVars, GITHUB_TOKEN,
                   journal_call, lastJournal>>

\* Somebody else commits journals.json, or deletes it.
ForeignEntry ==
    [user_id |-> 0, name |-> "other", reading_type |-> "draw",
     question |-> NoQuestion, for_user |-> NoUser, cards |-> <<>>,
     notes |-> "n"]
ForeignFiles == {NoFile, File(<<>>), File(<<ForeignEntry>>)}
foreign_write(file) ==
    /\ remote # file
    /\ remote' = file
    /\ UNCHANGED <<deckVars, readingVars, revealVars, renderVars, GITHUB_TOKEN, journal_call,
                   lastJournal>>

\* -------------------------------------------------- composite renderer
\* The URL of a card's face and of the card back.
get_card_image_url(card_name) == <<"face", card_name>>
get_card_back_url == <<"card-back", 0>>
\* cache_key: the url, with "_rotated" for the rotated image.
cache_key(url, rotate) == <<url, rotate>>

\* What requests.get brings: an image with status 200, another status, a
\* content type that is no image, or an exception (of the request, or of
\* Image.open on what came).
Failures == {"status", "content-type", "exception"}
Responses == {"image"} \cup Failures
NoImage == <<>>

\* download_card_image storing under the key whatever the request brought.
download_card_image_caching_all(cache, url, rotate, response) ==
    IF cache_key(url, rotate) \in cache
    THEN [img |-> <<url, rotate>>, cache |-> cache, requested |-> <<>>]
    ELSE [img |-> IF response = "image" THEN <<url, rotate>> ELSE NoImage,
          cache |-> cache \cup {cache_key(url, rotate)},
          requested |-> <<[key |-> cache_key(url, rotate),
                           response |-> response]>>]

\* download_card_image: the cached image, or the image fetched, rotated when
\* asked and then cached, or None (NoImage).  requested: the call of
\* requests.get it made, if it made one, and what came back.
download_card_image(cache, url, rotate, response) ==
    IF cache_key(url, rotate) \in cache
    THEN [img |-> <<url, rotate>>, cache |-> cache, requested |-> <<>>]
    ELSE IF response = "image"
         THEN [img |-> <<url, rotate>>,
               cache |-> cache \cup {cache_key(url, rotate)},
               requested |-> <<[key |-> cache_key(url, rotate),
                                response |-> response]>>]
         ELSE [img |-> NoImage, cache |-> cache,
               requested |-> <<[key |-> cache_key(url, rotate),
                                response |-> response]>>]

\* The image of slot i: the face of a revealed card, rotated when the card
\* is reversed, the card back otherwise.  responses[i] is what the network
\* answers if slot i asks it.
slot_image(cache, cards, revealed_indices, reversed_cards, responses, i) ==
    IF i \in revealed_indices
    THEN download_card_image(cache, get_card_image_url(cards[i]),
                             reversed_cards[i], responses[i])
    ELSE download_card_image(cache, get_card_back_url, FALSE, responses[i])

\* The loop over the slots with `continue` where the code returns None.
RECURSIVE card_images_skipping(_, _, _, _, _, _)
card_images_skipping(cache, cards, revealed_indices, reversed_cards, responses, i) ==
    IF i > Len(cards)
    THEN [images |-> <<>>, cache |-> cache, failed |-> 0, requested |-> <<>>]
    ELSE LET got == slot_image(cache, cards, revealed_indices, reversed_cards,
                               responses, i)
             rest == card_images_skipping(got.cache, cards, revealed_indices,
                                          reversed_cards, responses, i + 1)
         IN  [images |-> (IF got.img = NoImage THEN <<>> ELSE <<got.img>>)
                             \o rest.images,
              cache |-> rest.cache, failed |-> rest.failed,
              requested |-> got.requested \o rest.requested]

\* The loop over the slots, from slot i on: the images in slot order, or the
\* first slot whose image did not come, where the loop ends (failed; 0: none).
RECURSIVE card_images_from(_, _, _, _, _, _)
card_images_from(cache, cards, revealed_indices, reversed_cards, responses, i) ==
    IF i > Len(cards)
    THEN [images |-> <<>>, cache |-> cache, failed |-> 0, requested |-> <<>>]
    ELSE LET got == slot_image(cache, cards, revealed_indices, reversed_cards,
                               responses, i)
         IN  IF got.img = NoImage
             THEN [images |-> <<>>, cache |-> got.cache, failed |-> i,
                   requested |-> got.requested]
             ELSE LET rest == card_images_from(got.cache, cards, revealed_indices,
                                               reversed_cards, responses, i + 1)
                  IN  [images |-> IF rest.failed = 0
                                  THEN <<got.img>> \o rest.images ELSE <<>>,
                       cache |-> rest.cache, failed |-> rest.failed,
                       requested |-> got.requested \o rest.requested]

\* `file_size > 6_500_000`
Ceiling == 6500000
over_budget(file_size) == file_size > Ceiling

\* The encodings without the third step.
encodings_without_resize(sizes) ==
    IF over_budget(sizes.png)
    THEN <<[format |-> "PNG", scale |-> 100, size |-> sizes.png],
           [format |-> "JPEG", scale |-> 100, size |-> sizes.jpeg]>>
    ELSE <<[format |-> "PNG", scale |-> 100, size |-> sizes.png]>>

\* The encodings with the JPEG made whatever the size of the PNG.
encodings_always_lossy(sizes) ==
    IF over_budget(sizes.jpeg)
    THEN <<[format |-> "PNG", scale |-> 100, size |-> sizes.png],
           [format |-> "JPEG", scale |-> 100, size |-> sizes.jpeg],
           [format |-> "JPEG", scale |-> 75, size |-> sizes.resized]>>
    ELSE <<[format |-> "PNG", scale |-> 100, size |-> sizes.png],
           [format |-> "JPEG", scale |-> 100, size |-> sizes.jpeg]>>

\* The encodings the end of create_composite_image makes, in the order made:
\* the PNG; the JPEG if the PNG is over the budget; the JPEG of the image
\* scaled to 75% if that JPEG is over it too.  sizes: the bytes each encoder
\* gives for this composite.
encodings(sizes) ==
    IF over_budget(sizes.png)
    THEN IF over_budget(sizes.jpeg)
         THEN <<[format |-> "PNG", scale |-> 100, size |-> sizes.png],
                [format |-> "JPEG", scale |-> 100, size |-> sizes.jpeg],
                [format |-> "JPEG", scale |-> 75, size |-> sizes.resized]>>
         ELSE <<[format |-> "PNG", scale |-> 100, size |-> sizes.png],
                [format |-> "JPEG", scale |-> 100, size |-> sizes.jpeg]>>
    ELSE <<[format |-> "PNG", scale |-> 100, size |-> sizes.png]>>

\* What create_composite_image returns when it returns None.
NoBytes == [made |-> FALSE, format |-> "none", scale |-> 0, size |-> 0,
            images |-> <<>>]

\* create_composite_image: None when an image does not come or there is no
\* card, else the last encoding made of the images side by side.  The
\* layout (sizes of the first image, 20 pixels between, the whole scaled
\* down to 3000 pixels of width) decides the pixels and so the sizes.
create_composite_image(cache, cards, revealed_indices, reversed_cards, responses, sizes) ==
    LET r == card_images_from(cache, cards, revealed_indices, reversed_cards,
                              responses, 1)
        made == encodings(sizes)
        last == made[Len(made)]
    IN  IF r.failed # 0 \/ r.images = <<>>
        THEN [img_bytes |-> NoBytes, cache |-> r.cache, made |-> <<>>,
              requested |-> r.requested]
        ELSE [img_bytes |-> [made |-> TRUE, format |-> last.format,
                             scale |-> last.scale, size |-> last.size,
                             images |-> r.images],
              cache |-> r.cache, made |-> made, requested |-> r.requested]

\* A call of create_composite_image, by a drawing command or by a reveal
\* callback, and what the call was given.
NoComposite == [called |-> FALSE]
render_composite(cards, revealed_indices, reversed_cards, responses, sizes) ==
    /\ \E out \in {create_composite_image(image_cache, cards, revealed_indices,
                                            reversed_cards, responses, sizes)} :
           /\ image_cache' = out.cache
           /\ composite' = [called |-> TRUE, cards |-> cards,
                            revealed_indices |-> revealed_indices,
                            reversed_cards |-> reversed_cards,
                            responses |-> responses,
                            img_bytes |-> out.img_bytes, made |-> out.made,
                            requested |-> out.requested]
    /\ UNCHANGED <<deckVars, readingVars, revealVars, journalVars>>

\* ------------------------------------------------------- specification
Init ==
    /\ deck_state = Empty
    /\ undo_state = Empty
    /\ draws = Empty
    /\ views = Empty
    /\ drawn = Empty
    /\ lastOp = Empty
    /\ dealt = Empty
    /\ stopped = Empty
    /\ callbacks = Empty
    /\ last_readings = Empty
    /\ reading_stats = [total_readings |-> 0, readings_by_date |-> Empty,
                        readings_by_person |-> Empty, cards_drawn |-> Empty,
                        last_reading_date |-> NoDate]
    /\ today = 1
    /\ completed = Empty
    /\ lastEvent = [kind |-> "none"]
    /\ remote = NoFile
    /\ GITHUB_TOKEN = TRUE
    /\ journal_call = NoCall
    /\ lastJournal = [result |-> "none"]
    /\ lastReply = NoReply
    /\ image_cache = {}
    /\ composite = NoComposite

\* The deck commands of one guild and of one direct-message channel.
DeckUsers == {101}
DeckGuilds == {1}
DeckFlips(n) == {[i \in 1..n |-> FALSE]}
DeckSpreads == {"past_present_future"}
DeckTargets == {102}

\* The deck and the undo buffer never read a view or what a handler does
\* after its defer, so here the commands run one at a time and no view is
\* kept (every render fails); SpecReveal has the views.
Idle == DOMAIN draws = {}

DeckNext ==
    \E guild_id \in DeckGuilds, u \in DeckUsers :
        \/ \E count \in 1..MaxDraw : \E flips \in DeckFlips(count) :
              Idle /\ draw(guild_id, u, count, flips)
        \/ Idle /\ ask(guild_id, u, 1, <<FALSE>>)
        \/ \E spread_type \in DeckSpreads : \E flips \in DeckFlips(SpreadSize) :
              Idle /\ spread(guild_id, u, spread_type, flips)
        \/ \E target \in DeckTargets, reading_type \in {"ask"} \cup DeckSpreads :
              \E flips \in DeckFlips(Len(reading_for_labels(reading_type))) :
                 Idle /\ reading_for(guild_id, u, target, reading_type, flips)
        \/ \E n \in {1, MaxPositions} : \E flips \in DeckFlips(n) :
              Idle /\ custom_spread(guild_id, u, n, flips)
        \/ Idle /\ pull_clarifier(guild_id, u, <<FALSE>>)
        \/ Idle /\ undo(guild_id, u)
        \/ Idle /\ undo_and_shuffle(guild_id, u)
        \/ Idle /\ shuffle(guild_id, u)
        \/ \E id \in ReadingIds : send_reading(id, FALSE)

Spec == Init /\ [][DeckNext]_vars

\* The commands that can be refused, taken or refused: /draw and
\* /custom_spread with any count, /undo and /undo_and_shuffle with or without
\* a draw to undo, and /pull_clarifier and /shuffle between them.
RefusalNext ==
    \E guild_id \in DeckGuilds, u \in DeckUsers :
        \/ \E count \in 1..MaxDraw : \E flips \in DeckFlips(count) :
              Idle /\ draw(guild_id, u, count, flips)
        \/ \E count \in {0, MaxDraw + 1} : Idle /\ draw_rejected(guild_id, u, count)
        \/ \E n \in {1, MaxPositions} : \E flips \in DeckFlips(n) :
              Idle /\ custom_spread(guild_id, u, n, flips)
        \/ \E n \in {0, MaxPositions + 1} :
              Idle /\ custom_spread_rejected(guild_id, u, n)
        \/ Idle /\ pull_clarifier(guild_id, u, <<FALSE>>)
        \/ Idle /\ undo(guild_id, u)
        \/ Idle /\ undo_rejected(guild_id, u)
        \/ Idle /\ undo_and_shuffle(guild_id, u)
        \/ Idle /\ shuffle(guild_id, u)
        \/ \E id \in ReadingIds : send_reading(id, FALSE)

SpecRefusal == Init /\ [][RefusalNext]_vars

\* Two sessions side by side: a guild, and the direct messages of a member
\* (no guild_id, so the member's id is the key).  The guild's members use
\* every deck command the claim names; in the direct messages cards are
\* drawn one at a time and undone.
SessionGuilds == {1}
SessionUsers == {101}
SessionsNext ==
    \/ \E guild_id \in SessionGuilds, u \in SessionUsers :
          \/ \E count \in 1..MaxDraw : \E flips \in DeckFlips(count) :
                Idle /\ draw(guild_id, u, count, flips)
          \/ Idle /\ pull_clarifier(guild_id, u, <<FALSE>>)
          \/ Idle /\ undo(guild_id, u)
          \/ Idle /\ undo_and_shuffle(guild_id, u)
          \/ Idle /\ shuffle(guild_id, u)
    \/ \E u \in SessionUsers :
          \/ Idle /\ draw(NoGuild, u, 1, <<FALSE>>)
          \/ Idle /\ undo(NoGuild, u)
    \/ \E id \in ReadingIds : send_reading(id, FALSE)

SpecSessions == Init /\ [][SessionsNext]_vars

\* Readings and their reveal: the draws of one guild run one at a time but
\* beside the views of earlier readings, any member clicks any button, and
\* callbacks interleave at their awaits.  Readings are drawn for one pass
\* through the deck (a command is taken while the deck can serve it), one
\* reading on display at a time, and a clarifier beside it.
RevealGuilds == {1}
RevealUsers == {101}
\* The coins of a hand of n cards: none reversed, or the first one.
RevealFlips(n) == {[i \in 1..n |-> i <= k] : k \in 0..1}
MaxViews == 1
MayDraw(g, count) ==
    /\ Idle
    /\ g \in DOMAIN deck_state => ~needs_reshuffle(deck_state[g], count)
    /\ Cardinality(DOMAIN views) < MaxViews
\* A clarifier is pulled for a reading on display, or with none.
MayClarify(g) ==
    /\ Idle
    /\ g \in DOMAIN deck_state => ~needs_reshuffle(deck_state[g], 1)
    /\ Cardinality(DOMAIN views) <= MaxViews

\* The deck of the guild exists, shuffled into the order of the catalog.
InitReveal ==
    /\ deck_state = Put(Empty, 1, [i \in 1..NumCards |-> i])
    /\ undo_state = Empty
    /\ draws = Empty
    /\ views = Empty
    /\ drawn = Empty
    /\ lastOp = Empty
    /\ dealt = Empty
    /\ stopped = Empty
    /\ callbacks = Empty
    /\ last_readings = Empty
    /\ reading_stats = [total_readings |-> 0, readings_by_date |-> Empty,
                        readings_by_person |-> Empty, cards_drawn |-> Empty,
                        last_reading_date |-> NoDate]
    /\ today = 1
    /\ completed = Empty
    /\ lastEvent = [kind |-> "none"]
    /\ remote = NoFile
    /\ GITHUB_TOKEN = TRUE
    /\ journal_call = NoCall
    /\ lastJournal = [result |-> "none"]
    /\ lastReply = NoReply
    /\ image_cache = {}
    /\ composite = NoComposite

RevealNext ==
    \/ \E guild_id \in RevealGuilds, u \in RevealUsers :
          \/ \E count \in 1..MaxDraw : \E flips \in RevealFlips(count) :
                MayDraw(guild_id, count) /\ draw(guild_id, u, count, flips)
          \/ \E q \in Questions, flips \in RevealFlips(1) :
                MayDraw(guild_id, 1) /\ ask(guild_id, u, q, flips)
          \/ \E flips \in RevealFlips(1) :
                MayClarify(guild_id) /\ pull_clarifier(guild_id, u, flips)
    \/ \E id \in ReadingIds, ok \in BOOLEAN : send_reading(id, ok)
    \/ \E id \in ReadingIds : view_timeout(id)
    \/ \E id \in ReadingIds, index \in 1..MaxDraw, u \in Users :
          reveal_click(id, index, u)
    \/ \E id \in ReadingIds, index \in 1..MaxDraw, ok \in BOOLEAN :
          reveal_render(id, index, ok)
    \/ \E id \in ReadingIds, index \in 1..MaxDraw, edited \in BOOLEAN :
          reveal_edited(id, index, edited)

SpecReveal == InitReveal /\ [][RevealNext]_vars

\* Readings that outlive their views: hands are drawn and shown, members
\* click, callbacks run, the timeout of a view passes, and members go on
\* clicking the buttons the message still shows.
ExpiryNext ==
    \/ \E guild_id \in RevealGuilds, u \in RevealUsers :
       \E count \in 1..MaxDraw : \E flips \in RevealFlips(count) :
          MayDraw(guild_id, count) /\ draw(guild_id, u, count, flips)
    \/ \E id \in ReadingIds : send_reading(id, TRUE)
    \/ \E id \in ReadingIds : view_expired(id)
    \/ \E id \in ReadingIds, index \in 1..MaxDraw, u \in Users :
          reveal_click(id, index, u)
    \/ \E id \in ReadingIds, index \in 1..MaxDraw, ok \in BOOLEAN :
          reveal_render(id, index, ok)
    \/ \E id \in ReadingIds, index \in 1..MaxDraw, edited \in BOOLEAN :
          reveal_edited(id, index, edited)
    \/ \E id \in ReadingIds, index \in 1..MaxDraw, u \in Users :
          stopped_click(id, index, u)

SpecExpiry == InitReveal /\ [][ExpiryNext]_vars

\* From a draw to the journal: the hand is drawn, its cards are revealed by
\* any member, the reading is saved when the last one shows, and members ask
\* /journal before, while and after that.
DiaryNames == {"moon"}
DiaryNext ==
    \/ \E guild_id \in RevealGuilds, u \in RevealUsers :
          \/ \E count \in 1..MaxDraw : \E flips \in RevealFlips(count) :
                MayDraw(guild_id, count) /\ draw(guild_id, u, count, flips)
          \/ \E flips \in DeckFlips(1) :
                MayClarify(guild_id) /\ pull_clarifier(guild_id, u, flips)
    \/ \E id \in ReadingIds : send_reading(id, TRUE)
    \/ \E id \in ReadingIds : view_timeout(id)
    \/ \E id \in ReadingIds, index \in 1..MaxDraw, u \in Users :
          reveal_click(id, index, u)
    \/ \E id \in ReadingIds, index \in 1..MaxDraw, ok \in BOOLEAN :
          reveal_render(id, index, ok)
    \/ \E id \in ReadingIds, index \in 1..MaxDraw, edited \in BOOLEAN :
          reveal_edited(id, index, edited)
    \/ \E u \in Users : journal_rejected(u)
    \/ \E u \in Users, name \in DiaryNames, notes \in Notes, reached \in BOOLEAN :
          journal(u, name, notes, reached)
    \/ \E reached \in BOOLEAN : journal_save(reached)

SpecDiary == InitReveal /\ [][DiaryNext]_vars

\* Reveals that all go well: hands are drawn and shown, members click, every
\* composite is made and every edit of the message goes through.
ComposeNext ==
    \/ \E guild_id \in RevealGuilds, u \in RevealUsers :
          \E count \in 1..MaxDraw : \E flips \in RevealFlips(count) :
              MayDraw(guild_id, count) /\ draw(guild_id, u, count, flips)
    \/ \E id \in ReadingIds : send_reading(id, TRUE)
    \/ \E id \in ReadingIds : view_timeout(id)
    \/ \E id \in ReadingIds, index \in 1..MaxDraw, u \in Users :
          reveal_click(id, index, u)
    \/ \E id \in ReadingIds, index \in 1..MaxDraw : reveal_render(id, index, TRUE)
    \/ \E id \in ReadingIds, index \in 1..MaxDraw : reveal_edited(id, index, TRUE)

SpecCompose == InitReveal /\ [][ComposeNext]_vars

\* Drawing commands that overlap: /draw and /pull_clarifier are dispatched
\* while handlers of the same guild are suspended at their defer, and the
\* suspended handlers resume in any order.
MaxHandlers == 2
MayOverlap ==
    /\ Cardinality(DOMAIN draws) < MaxHandlers
    /\ Cardinality(DOMAIN views) < MaxViews
OverlapNext ==
    \/ \E guild_id \in RevealGuilds, u \in RevealUsers :
          \/ \E count \in 1..MaxDraw : \E flips \in DeckFlips(count) :
                MayOverlap /\ draw(guild_id, u, count, flips)
          \/ \E flips \in DeckFlips(1) :
                MayOverlap /\ pull_clarifier(guild_id, u, flips)
    \/ \E id \in ReadingIds, ok \in BOOLEAN : send_reading(id, ok)
    \/ \E id \in ReadingIds : view_timeout(id)

SpecOverlap == InitReveal /\ [][OverlapNext]_vars

\* The journal: members save their last completed reading under a name and
\* delete entries by name, while another process of the bot saves entries
\* and others write the file; GITHUB_TOKEN is set or not.
\* It starts when member 101 has asked a question in guild 1, revealed the
\* card, and the view has timed out.
JournalUsers == {101, 102}
\* The names the other process saves under.
PeerNames == {"moon"}
InitJournal ==
    /\ deck_state = Put(Empty, 1, [i \in 1..(NumCards - 1) |-> i + 1])
    /\ undo_state = Put(Empty, 1, [cards |-> <<1>>, list |-> NoList])
    /\ draws = Empty
    /\ views = Empty
    /\ drawn = Put(Empty, 1, {1})
    /\ lastOp = Put(Empty, 1,
           [op |-> "draw", before |-> [i \in 1..NumCards |-> i],
            reshuffle |-> FALSE, after |-> "none", prev |-> <<>>,
            prev_reshuffle |-> FALSE])
    /\ dealt = Empty
    /\ stopped = Empty
    /\ callbacks = Empty
    /\ last_readings = Put(Empty, 101, JournalReading)
    /\ reading_stats = track_reading(
           [total_readings |-> 0, readings_by_date |-> Empty,
            readings_by_person |-> Empty, cards_drawn |-> Empty,
            last_reading_date |-> NoDate], <<1>>, NoUser, 1)
    /\ today = 1
    /\ completed = Empty
    /\ lastEvent = [kind |-> "none"]
    /\ remote = NoFile
    /\ GITHUB_TOKEN \in BOOLEAN
    /\ journal_call = NoCall
    /\ lastJournal = [result |-> "none"]
    /\ lastReply = Deferred(1)
    /\ image_cache = {}
    /\ composite = NoComposite

JournalNext ==
    \/ \E u \in JournalUsers : journal_rejected(u)
    \/ \E u \in JournalUsers, name \in JournalNames, notes \in Notes,
          reached \in BOOLEAN : journal(u, name, notes, reached)
    \/ \E reached \in BOOLEAN : journal_save(reached)
    \/ \E u \in JournalUsers, name \in JournalNames, reached \in BOOLEAN :
          journal_delete(u, name, reached)
    \/ \E u \in JournalUsers, name \in PeerNames, notes \in Notes :
          peer_journal(u, name, notes)
    \/ \E file \in ForeignFiles : foreign_write(file)

SpecJournal == InitJournal /\ [][JournalNext]_vars

\* The renderer alone: composites of the hands of one and of two cards, any
\* of them face up, any reversed, while the network answers or fails slot by
\* slot and the encoders give sizes at and over the budget.
RenderHands == {<<1>>, <<1, 2>>}
RenderResponses(n) ==
    {[i \in 1..n |-> IF i \in F THEN k ELSE "image"] :
        F \in SUBSET (1..n), k \in Failures}
FileSizes == {Ceiling, Ceiling + 1}
RenderSizes == [png : FileSizes, jpeg : FileSizes, resized : FileSizes]
RenderNext ==
    \E cards \in RenderHands :
    \E revealed_indices \in SUBSET (1..Len(cards)) :
    \E reversed_cards \in RevealFlips(Len(cards)) :
    \E responses \in RenderResponses(Len(cards)), sizes \in RenderSizes :
        render_composite(cards, revealed_indices, reversed_cards, responses, sizes)

SpecRender == Init /\ [][RenderNext]_vars

\* ------------------------------------------------------ reading streak
\* datetime.date: the proleptic Gregorian calendar.  A date is a record of
\* year, month and day; toordinal numbers the days from the first of
\* January of EpochYear, and `today` and the keys of readings_by_date are
\* such numbers, each standing for the ISO string of its date.
EpochYear == 2023
is_leap(year) == (year % 4 = 0 /\ year % 100 # 0) \/ year % 400 = 0
days_in_month(year, month) ==
    IF month = 2 THEN (IF is_leap(year) THEN 29 ELSE 28)
    ELSE IF month \in {4, 6, 9, 11} THEN 30 ELSE 31
RECURSIVE days_before_year(_)
days_before_year(year) ==
    IF year <= EpochYear THEN 0
    ELSE days_before_year(year - 1) + (IF is_leap(year - 1) THEN 366 ELSE 365)
RECURSIVE days_before_month(_, _)
days_before_month(year, month) ==
    IF month <= 1 THEN 0
    ELSE days_before_month(year, month - 1) + days_in_month(year, month - 1)
toordinal(d) == days_before_year(d.year) + days_before_month(d.year, d.month) + d.day
Dates ==
    {d \in [year : EpochYear..(EpochYear + 1), month : 1..12, day : 1..31] :
        d.day <= days_in_month(d.year, d.month)}
fromordinal(n) == CHOOSE d \in Dates : toordinal(d) = n
\* date.isoformat(), as the key of readings_by_date.
isoformat(d) == toordinal(d)
\* date.replace(month=..., day=...): ValueError when there is no such date.
replace(d, month, day) ==
    IF month \in 1..12 /\ day \in 1..days_in_month(d.year, month)
    THEN [ok |-> TRUE, date |-> [year |-> d.year, month |-> month, day |-> day]]
    ELSE [ok |-> FALSE]

\* The loop of reading_stats_command that counts the streak: while the date
\* has readings, one more, and on to the day before by `replace(day=day-1)`,
\* from a first of the month by `replace(month=month-1, day=28)`.
RECURSIVE streak_from(_, _, _)
streak_from(readings_by_date, check_date, streak) ==
    IF isoformat(check_date) \notin DOMAIN readings_by_date
    THEN [error |-> FALSE, streak |-> streak]
    ELSE LET before == IF check_date.day > 1
                       THEN replace(check_date, check_date.month, check_date.day - 1)
                       ELSE replace(check_date, check_date.month - 1, 28)
         IN  IF before.ok
             THEN streak_from(readings_by_date, before.date, streak + 1)
             ELSE [error |-> TRUE, streak |-> streak + 1]

\* /reading_stats up to its streak: the notice that there are no readings,
\* or the streak counted back from today; error: the handler has raised.
reading_stats_command ==
    /\ lastEvent' =
          IF reading_stats.total_readings = 0
          THEN [kind |-> "reading_stats", result |-> "NoReadings",
                error |-> FALSE, streak |-> 0]
          ELSE LET counted == streak_from(reading_stats.readings_by_date,
                                          fromordinal(today), 0)
               IN  [kind |-> "reading_stats",
                    result |-> IF counted.error THEN "Raised" ELSE "Stats",
                    error |-> counted.error, streak |-> counted.streak]
    /\ UNCHANGED <<deckVars, readingVars, journalVars, renderVars, callbacks,
                   last_readings, reading_stats, today, completed>>

\* The statistics after one reading of one card on each of the days, in the
\* order of the days.
RECURSIVE StatsOf(_)
StatsOf(days) ==
    IF days = {} THEN [total_readings |-> 0, readings_by_date |-> Empty,
                       readings_by_person |-> Empty, cards_drawn |-> Empty,
                       last_reading_date |-> NoDate]
    ELSE LET last == CHOOSE n \in days : \A other \in days : other <= n
         IN  track_reading(StatsOf(days \ {last}), <<1>>, NoUser, last)

\* Today is a day of the winter of 2023 to 2024, from the 28th of December
\* on (the year ends, January has 31 days, February 29), and readings were
\* completed on any of the last days up to today.
StreakFirst == 362
StreakDays == 70
StreakBack == 4
InitStreak ==
    /\ deck_state = Empty
    /\ undo_state = Empty
    /\ draws = Empty
    /\ views = Empty
    /\ drawn = Empty
    /\ lastOp = Empty
    /\ dealt = Empty
    /\ stopped = Empty
    /\ callbacks = Empty
    /\ last_readings = Empty
    /\ today \in StreakFirst..(StreakFirst + StreakDays - 1)
    /\ \E days \in SUBSET ((today - StreakBack)..today) :
          reading_stats = StatsOf(days)
    /\ completed = Empty
    /\ lastEvent = [kind |-> "none"]
    /\ remote = NoFile
    /\ GITHUB_TOKEN = TRUE
    /\ journal_call = NoCall
    /\ lastJournal = [result |-> "none"]
    /\ lastReply = NoReply
    /\ image_cache = {}
    /\ composite = NoComposite

StreakNext == reading_stats_command

SpecStreak == InitStreak /\ [][StreakNext]_vars

\* ---------------------------------------------------------- properties
Buffer(g) == IF g \in DOMAIN undo_state THEN undo_state[g].cards ELSE <<>>
LastOpIs(g, op) == g \in DOMAIN lastOp /\ lastOp[g].op = op
\* The draw handlers (all drawing commands, the clarifier too) a step starts.
Started == DOMAIN draws' \ DOMAIN draws
\* Steps that are /undo, /undo_and_shuffle on g.
UndoStep(g) == can_undo(Store, g) /\ g \in DOMAIN lastOp' /\ lastOp'[g].op = "undo"
UndoAndShuffleStep(g) ==
    can_undo(Store, g) /\ g \in DOMAIN lastOp' /\ lastOp'[g].op = "undo_and_shuffle"
SessionIds == Guilds \cup Users

\* The cards the readings of session g hold: the hands of its draw handlers
\* under way and of its views.
Held(g) ==
    UNION ({Range(draws[id].cards) : id \in {i \in DOMAIN draws : draws[i].guild = g}}
           \cup {Range(views[id].cards) : id \in {i \in DOMAIN views : views[i].guild = g}})

\* C1 as stated: for every session, the deck, the cards its readings hold
\* and the undo buffer together are the catalog, and no card is both in the
\* deck and in a reading or the buffer.
C1_Original ==
    \A g \in DOMAIN deck_state :
        /\ NoDup(deck_state[g])
        /\ Range(deck_state[g]) \cap (Held(g) \cup Range(Buffer(g))) = {}
        /\ Range(deck_state[g]) \cup Held(g) \cup Range(Buffer(g)) = Cards

\* C1 amended: for every session, the deck, the cards drawn since the deck
\* was last whole and not undone since, and the undo buffer hold every
\* catalog card exactly once: the deck has no card twice and none of the
\* drawn or buffered cards, the buffered cards are drawn cards, and deck and
\* drawn cards together are the catalog.
C1_CatalogPartition ==
    /\ DOMAIN undo_state \subseteq DOMAIN deck_state
    /\ DOMAIN drawn \subseteq DOMAIN deck_state
    /\ \A g \in DOMAIN deck_state :
          /\ NoDup(deck_state[g])
          /\ NoDup(Buffer(g))
          /\ Range(deck_state[g]) \cap (Out(g) \cup Range(Buffer(g))) = {}
          /\ Range(Buffer(g)) \subseteq Out(g)
          /\ Range(deck_state[g]) \cup Out(g) \cup Range(Buffer(g)) = Cards

\* A draw has reshuffled, an earlier hand's cards are back in the deck.
C1_Witness ==
    \E g \in DOMAIN deck_state :
        /\ LastOpIs(g, "draw") /\ lastOp[g].reshuffle
        /\ deck_state[g] # <<>> /\ can_undo(Store, g)

\* C2 as stated: /undo right after a draw leaves the deck as the draw found
\* it, whatever the deck held.
C2_Original ==
    [][\A g \in SessionIds :
          LastOpIs(g, "draw") /\ UndoStep(g)
              => deck_state'[g] = lastOp[g].before]_vars

\* C2 amended: /undo right after a draw that did not reshuffle leaves the
\* deck in exactly the order the draw found it.
C2_DrawUndoRoundTrip ==
    [][\A g \in SessionIds :
          LastOpIs(g, "draw") /\ ~lastOp[g].reshuffle /\ UndoStep(g)
              => deck_state'[g] = lastOp[g].before]_vars

\* A draw that did not reshuffle was undone while an earlier hand was out.
C2_Witness ==
    \E g \in DOMAIN deck_state :
        /\ LastOpIs(g, "undo") /\ lastOp[g].after = "draw"
        /\ ~lastOp[g].prev_reshuffle
        /\ Len(deck_state[g]) < NumCards

\* C3: a drawing command reshuffles exactly when the deck it finds holds
\* fewer cards than asked for.  Then the cards handed out and the deck left
\* are one fresh permutation of the catalog and the reshuffle is reported;
\* otherwise the cards are the front of the deck as found and nothing is
\* reported.  Either way the draw hands out the number of cards asked for.
C3_ReshuffleExactlyWhenShort ==
    [][\A id \in Started :
          LET t == draws'[id]
              g == t.guild
              found == lastOp'[g].before
              count == Len(t.positions)
          IN  /\ g \in DOMAIN deck_state => found = deck_state[g]
              /\ Len(t.cards) = count
              /\ IF Len(found) < count
                 THEN /\ t.reshuffle
                      /\ IsPerm(t.cards \o deck_state'[g], Cards)
                 ELSE /\ ~t.reshuffle
                      /\ t.cards \o deck_state'[g] = found]_vars

\* A draw of two cards found one card and reshuffled.
C3_Witness ==
    \E id \in DOMAIN draws :
        /\ draws[id].reshuffle /\ Len(draws[id].cards) = 2
        /\ Len(lastOp[draws[id].guild].before) = 1

\* C8: the undo buffer has no card of the session's deck and no card twice.
C8_UndoDisjointFromDeck ==
    \A g \in DOMAIN undo_state :
        /\ g \in DOMAIN deck_state
        /\ Range(undo_state[g].cards) \cap Range(deck_state[g]) = {}
        /\ NoDup(undo_state[g].cards)

\* A clarifier has joined the buffer of a draw and cards remain in the deck.
C8_Witness ==
    \E g \in DOMAIN undo_state :
        /\ LastOpIs(g, "clarifier") /\ Len(undo_state[g].cards) >= 2
        /\ deck_state[g] # <<>>

\* C9 as stated: after /undo_and_shuffle the deck is a permutation of the
\* full catalog and the undo buffer is gone.
C9_Original ==
    [][\A g \in SessionIds :
          UndoAndShuffleStep(g)
              => /\ IsPerm(deck_state'[g], Cards)
                 /\ g \notin DOMAIN undo_state']_vars

\* C9 amended: after /undo_and_shuffle the deck is a permutation of the
\* cards it held together with the buffered cards (cards of earlier draws
\* stay out), and the undo buffer is gone.
C9_UndoAndShuffle ==
    [][\A g \in SessionIds :
          UndoAndShuffleStep(g)
              => /\ IsPerm(deck_state'[g],
                           Range(deck_state[g]) \cup Range(undo_state[g].cards))
                 /\ g \notin DOMAIN undo_state']_vars

\* /undo_and_shuffle has run while a card of an earlier draw was out.
C9_Witness ==
    \E g \in DOMAIN deck_state :
        /\ LastOpIs(g, "undo_and_shuffle")
        /\ Len(deck_state[g]) < NumCards /\ Len(deck_state[g]) >= 2

\* The clarifiers a step starts in session g.
ClarifierStep(g) ==
    {id \in Started : draws'[id].guild = g /\ draws'[id].cmd = "pull_clarifier"}
\* The deck is back as the draw before the clarifier found it.
ClarifierUndone(g) ==
    LastOpIs(g, "clarifier") /\ lastOp[g].after = "draw" /\ UndoStep(g)
        => deck_state'[g] = lastOp[g].prev

\* C10 as stated: the clarifier's card joins the buffer that exists when the
\* command starts, and one /undo after draw and clarifier gives back the deck
\* the draw found.
C10_Original ==
    [][\A g \in SessionIds :
          /\ \A id \in ClarifierStep(g) :
                undo_state'[g].cards =
                    IF can_undo(Store, g)
                    THEN Append(undo_state[g].cards, Head(draws'[id].cards))
                    ELSE draws'[id].cards
          /\ ClarifierUndone(g)]_vars

\* C10 amended: the clarifier's card joins the buffer unless the clarifier
\* reshuffles, which clears the buffer, and then starts a new one; when
\* neither the draw nor the clarifier reshuffled, one /undo after the two
\* gives back the deck the draw found.
C10_ClarifierJoinsBuffer ==
    [][\A g \in SessionIds :
          /\ \A id \in ClarifierStep(g) :
                undo_state'[g].cards =
                    IF can_undo(Store, g) /\ ~draws'[id].reshuffle
                    THEN Append(undo_state[g].cards, Head(draws'[id].cards))
                    ELSE draws'[id].cards
          /\ (LastOpIs(g, "clarifier")
                 /\ ~lastOp[g].reshuffle /\ ~lastOp[g].prev_reshuffle)
                => ClarifierUndone(g)]_vars

\* A clarifier has joined the two cards of a draw, nothing reshuffled.
C10_Witness ==
    \E g \in DOMAIN undo_state :
        /\ LastOpIs(g, "clarifier") /\ lastOp[g].after = "draw"
        /\ ~lastOp[g].reshuffle /\ ~lastOp[g].prev_reshuffle
        /\ Len(undo_state[g].cards) = 3

\* The answers of /undo and /undo_and_shuffle.
UndoAnswers == {"Undone", "NoUndoAvailable"}
\* The step is a command of session g that answers `result` at once.
Answers(g, result) == lastReply' # lastReply /\ lastReply' = Reply(g, result)

\* C11: after /shuffle, whatever the session held before, the deck is a
\* permutation of the full catalog and the session has no undo buffer; an
\* /undo or /undo_and_shuffle sent next is answered NoUndoAvailable and
\* leaves deck and buffer as they are.
C11_ShuffleResets ==
    [][\A g \in SessionIds :
          /\ lastReply' = Reply(g, "Shuffled")
                 => /\ g \in DOMAIN deck_state'
                    /\ IsPerm(deck_state'[g], Cards)
                    /\ g \notin DOMAIN undo_state'
                    /\ ~can_undo([deck |-> deck_state', undo |-> undo_state'], g)
          /\ (/\ LastOpIs(g, "shuffle") /\ lastReply' # lastReply
              /\ lastReply'.session = g /\ lastReply'.result \in UndoAnswers)
                 => /\ lastReply'.result = "NoUndoAvailable"
                    /\ UNCHANGED <<deck_state, undo_state>>]_vars

\* /undo was refused right after a /shuffle that followed a draw.
C11_Witness ==
    \E g \in DOMAIN deck_state :
        /\ lastReply = Reply(g, "NoUndoAvailable")
        /\ LastOpIs(g, "shuffle") /\ lastOp[g].after \in {"draw", "clarifier"}

\* C12: a drawing command that does not reshuffle takes exactly the first
\* count cards of the deck it finds, in deck order, leaves the other cards in
\* their order, and leaves the undo buffer holding exactly the cards drawn,
\* whatever it held before.
C12_DrawTakesFront ==
    [][\A id \in Started :
          LET t == draws'[id]
              g == t.guild
              found == lastOp'[g].before
              count == Len(t.positions)
          IN  (t.cmd # "pull_clarifier" /\ ~t.reshuffle)
                  => /\ g \in DOMAIN deck_state => found = deck_state[g]
                     /\ t.cards = SubSeq(found, 1, count)
                     /\ deck_state'[g] = SubSeq(found, count + 1, Len(found))
                     /\ undo_state'[g].cards = t.cards]_vars

\* A draw of one card from a deck of two has replaced the buffer an earlier
\* draw left.
C12_Witness ==
    \E g \in DOMAIN undo_state :
        /\ LastOpIs(g, "draw") /\ lastOp[g].after = "draw"
        /\ ~lastOp[g].reshuffle /\ Len(lastOp[g].before) = 2
        /\ undo_state[g].cards = <<lastOp[g].before[1]>>

\* C13: /undo and /undo_and_shuffle are answered NoUndoAvailable exactly when
\* the session has no buffer or an empty one, and then deck and buffer stay
\* as they are; after an undo that went through the session has no buffer,
\* so the next /undo, no draw between, is answered NoUndoAvailable.
C13_UndoNeedsBuffer ==
    /\ [][\A g \in SessionIds :
             (lastReply' # lastReply /\ lastReply'.session = g
                 /\ lastReply'.result \in UndoAnswers)
                 => IF can_undo(Store, g)
                    THEN lastReply'.result = "Undone"
                    ELSE /\ lastReply'.result = "NoUndoAvailable"
                         /\ UNCHANGED <<deck_state, undo_state>>]_vars
    /\ [](lastReply.result = "Undone"
             => /\ lastReply.session \notin DOMAIN undo_state
                /\ ~can_undo(Store, lastReply.session))
    /\ [][(lastReply.result = "Undone" /\ lastReply' # lastReply
              /\ lastReply'.result \in UndoAnswers)
                 => lastReply'.result = "NoUndoAvailable"]_vars

\* A second /undo was refused after the first gave two cards back.
C13_Witness ==
    \E g \in DOMAIN deck_state :
        /\ lastReply = Reply(g, "NoUndoAvailable")
        /\ LastOpIs(g, "undo") /\ lastOp[g].after = "draw"
        /\ Len(deck_state[g]) = NumCards

\* C14 as stated: a command answered ValidationError changes nothing: the
\* deck map, the undo map, the draw handlers and the views are as before,
\* also for a session that had no deck.
C14_RejectedChangesNothing ==
    [][\A g \in SessionIds :
          Answers(g, "ValidationError")
              => UNCHANGED <<deck_state, undo_state, draws, views>>]_vars

\* C15 as stated: in every state a view's list of cards, of position labels
\* and of reversed flags have one length, and the list of cards is the hand
\* as it was drawn: no later command changes it.
C15_ListsKeepLength ==
    \A id \in DOMAIN views :
        /\ Len(views[id].cards) = Len(views[id].positions)
        /\ Len(views[id].positions) = Len(views[id].reversed_cards)
        /\ views[id].cards = dealt[id].cards

\* The labels and the flags of a view, which no command touches, do keep
\* their length and their values.
C15_LabelsAndFlagsKept ==
    \A id \in DOMAIN views :
        /\ views[id].positions = dealt[id].positions
        /\ views[id].reversed_cards = dealt[id].reversed_cards
        /\ Len(views[id].positions) = Len(views[id].reversed_cards)

\* The draw handlers a step ends with no view: the composite was not made.
RenderFailed == {id \in DOMAIN draws \ DOMAIN draws' : id \notin DOMAIN views'}
\* The deck is as before for g: the same list, or the whole catalog in the
\* order of the first access when the session had no deck.
DeckAsBefore(g) ==
    IF g \in DOMAIN deck_state
    THEN deck_state'[g] = deck_state[g]
    ELSE g \in DOMAIN deck_state' => IsPerm(deck_state'[g], Cards)

\* C16: a command that ends in an error leaves deck and buffer both as
\* before or both as the complete command leaves them.  Refused (NoUndo-
\* Available, ValidationError): the buffer is as before and so is the deck.
\* RenderFailed: the step changes neither, and they are what the draw left:
\* the buffer ends with the cards drawn, and cards and deck together are
\* the deck found, or the catalog after a reshuffle.
C16_ErrorsLeaveDeckWhole ==
    [][/\ \A g \in SessionIds :
             (Answers(g, "NoUndoAvailable") \/ Answers(g, "ValidationError"))
                 => UNCHANGED undo_state /\ DeckAsBefore(g)
       /\ \A id \in RenderFailed :
             LET t == draws[id]
                 g == t.guild
                 n == Len(t.cards)
                 b == Buffer(g)
             IN  /\ UNCHANGED <<deck_state, undo_state>>
                 /\ Len(b) >= n
                 /\ SubSeq(b, Len(b) - n + 1, Len(b)) = t.cards
                 /\ IF t.reshuffle
                    THEN IsPerm(t.cards \o deck_state[g], Cards)
                    ELSE t.cards \o deck_state[g] = lastOp[g].before]_vars

\* The composite of a draw of two cards that reshuffled was not made.
C16_Witness ==
    \E g \in DOMAIN undo_state :
        /\ Idle /\ LastOpIs(g, "draw") /\ lastOp[g].reshuffle
        /\ Len(undo_state[g].cards) = 2
        /\ Len(deck_state[g]) = NumCards - 2

\* The cache key slot i of the call c asks for.
SlotKey(c, i) ==
    IF i \in c.revealed_indices
    THEN cache_key(get_card_image_url(c.cards[i]), c.reversed_cards[i])
    ELSE cache_key(get_card_back_url, FALSE)
\* The image of slot i of the call c is not to be had: it is not in the
\* cache, the network fails for the slot, and no slot before it brings it.
NotToBeHad(c, i) ==
    /\ SlotKey(c, i) \notin image_cache
    /\ c.responses[i] \in Failures
    /\ \A j \in 1..(i - 1) :
          SlotKey(c, j) = SlotKey(c, i) => c.responses[j] \in Failures

\* C17: when the image of some slot is not to be had (the request fails, is
\* answered with another status than 200, or brings no image),
\* create_composite_image returns None: no bytes, no encoding made; and the
\* bytes it does return show every slot, in order.
C17_RenderAllOrNothing ==
    [][LET c == composite'
       IN  /\ (\E i \in 1..Len(c.cards) : NotToBeHad(c, i))
                  => c.img_bytes = NoBytes /\ c.made = <<>>
           /\ c.img_bytes.made
                  => /\ Len(c.img_bytes.images) = Len(c.cards)
                     /\ \A i \in 1..Len(c.cards) :
                           cache_key(c.img_bytes.images[i][1],
                                     c.img_bytes.images[i][2]) = SlotKey(c, i)]_vars

\* The first slot's image came and is cached, the second's did not come,
\* and nothing was returned.
C17_Witness ==
    /\ composite.called /\ Len(composite.cards) = 2
    /\ composite.responses[1] = "image" /\ composite.responses[2] \in Failures
    /\ SlotKey(composite, 1) \in image_cache
    /\ SlotKey(composite, 2) \notin image_cache
    /\ composite.img_bytes = NoBytes

\* C18 as stated: the bytes the renderer returns are never more than the
\* ceiling.
C18_Original ==
    (composite.called /\ composite.img_bytes.made)
        => composite.img_bytes.size <= Ceiling

\* C18 amended: the bytes returned are more than the ceiling only when the
\* PNG, the JPEG and the JPEG of the scaled image are each more than the
\* ceiling; they are then that last JPEG.
C18_OverBudgetOnlyAfterAllSteps ==
    (composite.called /\ composite.img_bytes.made
        /\ composite.img_bytes.size > Ceiling)
        => /\ Len(composite.made) = 3
           /\ \A k \in 1..3 : composite.made[k].size > Ceiling
           /\ composite.img_bytes.format = "JPEG"
           /\ composite.img_bytes.scale = 75
           /\ composite.img_bytes.size = composite.made[3].size

\* PNG and JPEG of a hand of two were over the ceiling and the JPEG of the
\* scaled image, which was returned, is not.
C18_Witness ==
    /\ composite.called /\ composite.img_bytes.made
    /\ Len(composite.cards) = 2
    /\ Len(composite.made) = 3
    /\ composite.img_bytes.size <= Ceiling

\* C19: the PNG is always made, and first; the JPEG is made exactly when the
\* PNG is more than the ceiling; the JPEG of the image scaled to 75% is made
\* exactly when that JPEG is more than the ceiling too; nothing more is
\* made, and the bytes returned are the last encoding made, whatever its
\* size.
C19_FallbackChain ==
    (composite.called /\ composite.img_bytes.made) =>
        LET made == composite.made
            n == Len(made)
        IN  /\ n \in 1..3
            /\ made[1].format = "PNG" /\ made[1].scale = 100
            /\ n >= 2 <=> made[1].size > Ceiling
            /\ n >= 2 => made[2].format = "JPEG" /\ made[2].scale = 100
            /\ n = 3 <=> (n >= 2 /\ made[2].size > Ceiling)
            /\ n = 3 => made[3].format = "JPEG" /\ made[3].scale = 75
            /\ composite.img_bytes.format = made[n].format
            /\ composite.img_bytes.scale = made[n].scale
            /\ composite.img_bytes.size = made[n].size

\* All three encodings were made and the last, over the ceiling, returned.
C19_Witness ==
    /\ composite.called /\ composite.img_bytes.made
    /\ Len(composite.made) = 3
    /\ composite.img_bytes.size > Ceiling
    /\ composite.revealed_indices # {}

\* The click a step makes, if it makes one: lastEvent names it.
Clicked == lastEvent' # lastEvent /\ lastEvent'.kind = "click"

\* C4: a click on a button whose index is in the view's revealed set is
\* answered AlreadyRevealed and changes nothing: not the revealed set, not
\* the message on display, not the callbacks under way, not the last
\* readings, not the statistics, not the decks.
C4_AlreadyRevealedNoEffect ==
    [][(/\ Clicked
        /\ lastEvent'.view \in DOMAIN views
        /\ lastEvent'.index \in views[lastEvent'.view].revealed)
          => /\ lastEvent'.result = "AlreadyRevealed"
             /\ UNCHANGED <<views, callbacks, last_readings, reading_stats,
                            today, completed, draws, deck_state, undo_state>>]_vars

\* A revealed card of a reading of two was clicked again, the other hidden.
C4_Witness ==
    /\ lastEvent.kind = "click" /\ lastEvent.result = "AlreadyRevealed"
    /\ lastEvent.view \in DOMAIN views
    /\ views[lastEvent.view].revealed = {lastEvent.index}
    /\ Len(views[lastEvent.view].cards) = 2

\* No callback of view id is under way.
Settled(id) == \A k \in DOMAIN callbacks : k[1] # id
AllClicked(id) == views[id].revealed = Buttons(views[id])

\* C5 as stated: a view saves its reading exactly when as many indices are
\* revealed as it has cards: only then, at most once, and always (it has
\* saved it when every card is revealed and no callback is still under way).
C5_CompleteExactlyOnce ==
    /\ [](\A id \in DOMAIN views :
             /\ Saved(id) <= 1
             /\ AllClicked(id) /\ Settled(id) => Saved(id) >= 1)
    /\ [][\A id \in DOMAIN views :
             id \in DOMAIN completed' /\ completed'[id] > Saved(id)
                 => all_revealed(views[id])]_vars

\* The three parts of C5, one by one.
C5_AtMostOnce == \A id \in DOMAIN views : Saved(id) <= 1
C5_OnlyWhenAllRevealed ==
    [][\A id \in DOMAIN views :
          id \in DOMAIN completed' /\ completed'[id] > Saved(id)
              => all_revealed(views[id])]_vars
C5_AlwaysWhenAllRevealed ==
    \A id \in DOMAIN views : AllClicked(id) /\ Settled(id) => Saved(id) >= 1
\* The same with every render and every edit of the view having gone well:
\* the card list has grown under the view.
C5_AlwaysWhenCardsKept ==
    \A id \in DOMAIN views :
        AllClicked(id) /\ Settled(id) /\ views[id].shown = views[id].revealed
            => Saved(id) >= 1

\* The hand as reading_data lists it.
Triples(hand) ==
    [i \in 1..Len(hand.cards) |->
        [name |-> hand.cards[i], position |-> hand.positions[i],
         reversed |-> hand.reversed_cards[i]]]

\* C6: the view built for a draw of N cards holds the N cards drawn, no card
\* twice, with the labels and flags of the draw and nothing revealed; and
\* the reading a view saves lists exactly the cards drawn, in the order
\* drawn, each with the label and the flag its index got at the draw.
C6_ProjectionIsTheDraw ==
    [][/\ \A id \in DOMAIN views' \ DOMAIN views :
             /\ views'[id].cards = dealt[id].cards
             /\ NoDup(views'[id].cards)
             /\ Len(views'[id].cards) = Len(dealt[id].positions)
             /\ views'[id].positions = dealt[id].positions
             /\ views'[id].reversed_cards = dealt[id].reversed_cards
             /\ views'[id].revealed = {}
       /\ \A k \in DOMAIN callbacks \ DOMAIN callbacks' :
             k[1] \in DOMAIN completed' /\ completed'[k[1]] > Saved(k[1])
                 => last_readings'[callbacks[k].user].cards = Triples(dealt[k[1]])]_vars

\* A reading of two cards, the first reversed, revealed second card first,
\* is saved.
C6_Witness ==
    \E id \in DOMAIN views, u \in DOMAIN last_readings :
        /\ Saved(id) >= 1
        /\ Len(views[id].cards) = 2
        /\ views[id].reversed_cards[1]
        /\ lastEvent.kind = "click" /\ lastEvent.view = id /\ lastEvent.index = 1
        /\ last_readings[u].cards = Triples(dealt[id])

\* The step that is the PUT of /journal.
SaveStep == journal_call # NoCall /\ journal_call' = NoCall
\* Lists a later write may carry.
WriteLists == {<<>>, <<ForeignEntry>>}

\* C7: when /journal has saved, a fetch returns a list with the new entry
\* and a token that is not the token fetched before the save; a write sent
\* with the new token is accepted and replaces the list; a write sent with
\* the token fetched before the save is refused and leaves the file as it
\* is.  And the save of /journal itself is refused, the file unchanged,
\* when the file is no longer the one its token was fetched for.
C7_JournalTokenContract ==
    [][SaveStep =>
          LET call == journal_call[1]
              now == get_journals_from_github(remote, TRUE)
              got == get_journals_from_github(remote', TRUE)
              fresh(L) == save_journals_to_github(remote', GITHUB_TOKEN, L,
                                                  got[2], TRUE)
              stale(L) == save_journals_to_github(remote', GITHUB_TOKEN, L,
                                                  call.sha, TRUE)
          IN  /\ lastJournal'.result = "Saved" =>
                    /\ \E i \in DOMAIN got[1] : got[1][i] = call.entry
                    /\ got[2] # None /\ got[2] # call.sha
                    /\ \A L \in WriteLists :
                          /\ fresh(L).ok /\ fresh(L).remote = File(L)
                          /\ ~stale(L).ok /\ stale(L).remote = remote'
              /\ call.sha # now[2] =>
                    lastJournal'.result = "Failed" /\ remote' = remote]_vars

\* /journal has added its entry to a file that held another.
C7_Witness ==
    /\ lastJournal.result = "Saved"
    /\ remote.exists /\ Len(remote.content) >= 2
    /\ remote.content[1] = ForeignEntry

\* The entries of the file, none when there is no file.
Entries(R) == IF R.exists THEN R.content ELSE <<>>
\* No two entries of one owner have the same name, whatever the case.
UniqueNames(journals) ==
    \A i, j \in DOMAIN journals :
        (journals[i].user_id = journals[j].user_id
            /\ lower(journals[i].name) = lower(journals[j].name)) => i = j
\* The steps in which this process or the other one sends its PUT.
WriteStep == SaveStep \/ (remote' # remote /\ UNCHANGED journal_call
                             /\ Len(Entries(remote')) = Len(Entries(remote)) + 1)

\* C20: in every state the entries of the file have, owner by owner, names
\* that differ whatever the case, whatever appends and deletions of the two
\* owners and of the two processes came before and however they
\* interleaved; /journal with a name the fetched list has for the owner is
\* answered as a duplicate with no PUT; and no PUT changes the file into one
\* with the name twice, also when the file is not the one fetched.
C20_UniqueNamesPerOwner ==
    /\ [](UniqueNames(Entries(remote)))
    /\ [][/\ (lastJournal' # lastJournal /\ lastJournal'.result = "Duplicate")
                 => UNCHANGED <<remote, journal_call>>
          /\ \A u \in JournalUsers, name \in JournalNames :
                (/\ journal_call = NoCall /\ journal_call' # NoCall
                 /\ journal_call'[1].cmd = "journal"
                 /\ journal_call'[1].user = u /\ journal_call'[1].entry.name = name)
                    => ~existing(get_journals_from_github(remote, TRUE)[1], u, name)
                       \/ journal_call'[1].sha = None
          /\ WriteStep => UniqueNames(Entries(remote'))]_vars

\* The file holds entries "moon" of both owners and "tide" of the first,
\* and the PUT of /journal "Moon" of the first owner, fetched before the
\* other process saved "moon", has just been refused.
C20_Witness ==
    /\ lastJournal = [result |-> "Failed", user |-> 101]
    /\ GITHUB_TOKEN
    /\ \E i, j, k \in DOMAIN Entries(remote) :
          /\ remote.content[i].user_id = 101 /\ remote.content[i].name = "moon"
          /\ remote.content[j].user_id = 102 /\ remote.content[j].name = "moon"
          /\ remote.content[k].user_id = 101 /\ remote.content[k].name = "tide"

\* The entry j is the one /journal_delete of u and name looks for.
Matches(j, u, name) == j.user_id = u /\ lower(j.name) = lower(name)
\* The places of the list whose entries it does not look for.
OthersIn(journals, u, name) ==
    {i \in DOMAIN journals : ~Matches(journals[i], u, name)}
\* The k-th of a set of places, from the front.
Kth(S, k) == CHOOSE i \in S : Cardinality({j \in S : j <= i}) = k
\* The step in which /journal_delete ends its search.
DeleteCalls(u, name) ==
    /\ journal_call = NoCall /\ journal_call' # NoCall
    /\ journal_call'[1].cmd = "journal_delete"
    /\ journal_call'[1].user = u /\ journal_call'[1].entry.name = name

\* C21: /journal_delete answers "not found" with no PUT and no change of the
\* file when the list fetched has no entry of the user with the name; it
\* goes on to its PUT only when the list has one, and the list it sends is
\* the list fetched without the user's entries of that name: every entry of
\* another user and every other entry of the user is there, as it was and
\* in the order it had; when the PUT is accepted the file is that list.
C21_DeleteKeepsTheRest ==
    [][/\ (lastJournal' # lastJournal /\ lastJournal'.result = "NotFound")
             => UNCHANGED <<remote, journal_call>>
       /\ \A u \in JournalUsers, name \in JournalNames :
             DeleteCalls(u, name) =>
                 LET fetched == Entries(remote)
                     written == journal_call'[1].journals
                     others == OthersIn(fetched, u, name)
                 IN  /\ existing(fetched, u, name)
                     /\ journal_call'[1].sha = Sha(fetched)
                     /\ Len(written) = Cardinality(others)
                     /\ \A k \in 1..Len(written) :
                           written[k] = fetched[Kth(others, k)]
       /\ (SaveStep /\ journal_call[1].cmd = "journal_delete"
              /\ lastJournal'.result = "Deleted")
             => remote' = File(journal_call[1].journals)]_vars

\* The second owner's "Moon" deletes their "moon" from between the first
\* owner's "moon" and "tide", and the file is the two that are left.
C21_Witness ==
    /\ lastJournal = [result |-> "Deleted", user |-> 102]
    /\ remote.exists /\ Len(remote.content) = 2
    /\ remote.content[1].user_id = 101 /\ remote.content[1].name = "moon"
    /\ remote.content[2].user_id = 101 /\ remote.content[2].name = "tide"

\* The file is no longer the one the call's sha was fetched for.
Stale(call) == call.sha # get_journals_from_github(remote, TRUE)[2]
\* What the command of the call answers when there is no token.
UnavailableReply(call) ==
    journal_reply(call.cmd,
                  save_journals_to_github(remote, FALSE, call.journals,
                                          call.sha, TRUE).ok)

\* C22: the answer to a save that is refused because the file has changed
\* since the fetch is not the answer the same command gives when no token
\* is set, and neither is the answer "not found".
C22_FailuresToldApart ==
    [][SaveStep =>
          LET call == journal_call[1]
          IN  /\ UnavailableReply(call) # "NotFound"
              /\ (GITHUB_TOKEN /\ Stale(call) /\ lastJournal'.result = "Failed")
                    => lastJournal'.result # UnavailableReply(call)]_vars

\* C23: with no token the PUT step of /journal and of /journal_delete ends
\* in the notice of failure and requests.put is not called; and whenever
\* the step ends in the notice of failure (no token, a sha that is no
\* longer the file's, a request that does not get through) the file is as
\* it was.
C23_FailedWriteChangesNothing ==
    [][SaveStep =>
          LET call == journal_call[1]
          IN  /\ ~GITHUB_TOKEN =>
                    /\ lastJournal'.result = "Failed"
                    /\ \A reached \in BOOLEAN :
                          ~save_journals_to_github(remote, GITHUB_TOKEN,
                               call.journals, call.sha, reached).sent
              /\ lastJournal'.result = "Failed" => remote' = remote]_vars

\* /journal_delete of an entry that is in the file has failed for want of a
\* token, and the entry is still there.
C23_Witness ==
    /\ ~GITHUB_TOKEN
    /\ lastJournal = [result |-> "Failed", user |-> 102]
    /\ existing(Entries(remote), 102, "moon")
    /\ 102 \notin DOMAIN last_readings

\* The step in which the view id saves its reading.
Completes(id) ==
    /\ id \in DOMAIN views
    /\ Saved(id)' = Saved(id) + 1

\* C24: when a view saves its reading, the reading is put in
\* last_readings under the user whose command made the view, in place of
\* what was there; the entries of all other users are as before.
C24_ReadingGoesToItsOwner ==
    [][\A id \in ReadingIds :
          Completes(id) =>
              last_readings' = Put(last_readings, views[id].user,
                                   reading_data(views[id]))]_vars

\* The same with the user whose click ended the reveal: the reading is in
\* that user's entry, one reading per user, the others untouched.
C24_ReadingGoesToTheClicker ==
    [][\A id \in ReadingIds :
          Completes(id) =>
              \E k \in DOMAIN callbacks :
                  /\ k[1] = id /\ k \notin DOMAIN callbacks'
                  /\ last_readings' = Put(last_readings, callbacks[k].user,
                                          reading_data(views[id]))]_vars

\* The step is a click on a button of a view whose timeout has passed.
ExpiredClick ==
    lastEvent' # lastEvent /\ lastEvent'.result = "SessionExpired"

KindsOf(t) ==
    IF t.cmd = "ask" THEN {"ask"}
    ELSE IF t.cmd = "spread" THEN {"spread", t.positions[1][1]}
    ELSE IF t.cmd = "custom_spread" THEN {"custom_spread"}
    ELSE IF t.cmd = "pull_clarifier" THEN {"clarifier"}
    ELSE IF t.cmd = "draw" THEN {"draw"}
    ELSE {t.reading_type}

\* C29: the reading_type a drawing command gives its view, which the view
\* copies into the reading it saves, names the command: "ask" for /ask,
\* "spread" or the spread type for /spread, "custom_spread" for
\* /custom_spread, "clarifier" for /pull_clarifier, "draw" for /draw.
C29_KindNamesTheCommand ==
    \A id \in DOMAIN draws : draws[id].reading_type \in KindsOf(draws[id])

\* The same for /draw and /reading_for alone, the commands that pass
\* reading_type to the view.
C29_KindOfDrawAndReadingFor ==
    \A id \in DOMAIN draws :
        /\ draws[id].cmd = "draw" => draws[id].reading_type = "draw"
        /\ draws[id].cmd = "reading_for" =>
              /\ draws[id].reading_type \in {"draw", "ask"} \cup SpreadTypes
              /\ draws[id].positions = reading_for_labels(draws[id].reading_type)

\* A callback of button index of view id is suspended at one of its awaits.
InFlight(id, index) == <<id, index>> \in DOMAIN callbacks

\* C26: the test of the revealed set and the addition to it are one step.
\* A click on a hidden index is accepted, and by the end of that step the
\* index is in the set and the one callback that will render it is under
\* way; so a click on the same index that comes while that callback is
\* suspended at its defer or at its edit, or after it, finds the index
\* revealed and is answered AlreadyRevealed, and starts no second
\* callback.  No index leaves the set, so no index is accepted twice.
C26_RevealCheckAndSetAtomic ==
    [][\A id \in DOMAIN views :
          /\ id \in DOMAIN views' => views[id].revealed \subseteq views'[id].revealed
          /\ \A index \in Buttons(views[id]) :
                (Clicked /\ lastEvent'.view = id /\ lastEvent'.index = index) =>
                    IF index \in views[id].revealed
                    THEN /\ lastEvent'.result = "AlreadyRevealed"
                         /\ UNCHANGED <<views, callbacks>>
                    ELSE /\ lastEvent'.result = "Accepted"
                         /\ ~InFlight(id, index) /\ InFlight(id, index)'
                         /\ views'[id].revealed = views[id].revealed \cup {index}
          /\ \A index \in Buttons(views[id]) :
                InFlight(id, index) => index \in views[id].revealed]_vars

\* The second click on a card came while the callback of the first was
\* suspended at its defer, and was refused.
C26_Witness ==
    /\ lastEvent.kind = "click" /\ lastEvent.result = "AlreadyRevealed"
    /\ InFlight(lastEvent.view, lastEvent.index)
    /\ callbacks[<<lastEvent.view, lastEvent.index>>].pc = "defer"
    /\ views[lastEvent.view].revealed = {lastEvent.index}

\* The handlers of guild g that are suspended at their defer.
Handlers(g) == {id \in DOMAIN draws : draws[id].guild = g}

\* C27: of the drawing handlers of one guild that are under way at the same
\* time no two hold the same card, and none holds a card that is in the
\* deck: the deck has lost the cards handed out and no others.
C27_NoCardHandedTwice ==
    \A g \in DOMAIN deck_state :
        /\ \A a, b \in Handlers(g) :
              a # b => Range(draws[a].cards) \cap Range(draws[b].cards) = {}
        /\ \A a \in Handlers(g) :
              Range(draws[a].cards) \cap Range(deck_state[g]) = {}

\* What holds of the code: the cards a command takes and the list it saves
\* for undo change in the one step that ends at the defer, so the cards a
\* command takes without a reshuffle are the front of the deck as that step
\* found it and leave it in that step, whatever handlers are suspended.
C27_TakesAndSavesInOneStep ==
    [][\A id \in DOMAIN draws' \ DOMAIN draws :
          LET g == draws'[id].guild
              n == Len(draws'[id].cards)
          IN  ~draws'[id].reshuffle =>
                 /\ draws'[id].cards = SubSeq(deck_state[g], 1, n)
                 /\ deck_state'[g] = SubSeq(deck_state[g], n + 1, Len(deck_state[g]))
                 /\ Range(draws'[id].cards) \subseteq Range(undo_state'[g].cards)]_vars

\* The card of button index of view id is on the message, or a callback of
\* the view is under way whose composite will show it.
ShownOrComing(id, index) ==
    \/ index \in views[id].shown
    \/ \E k \in DOMAIN callbacks : k[1] = id

\* C28: a click is answered AlreadyRevealed only for a card that is on the
\* message or about to be: when the composite of an accepted click could
\* not be made, and nothing has shown the card since, a click on the same
\* button is accepted again.
C28_RetryAfterRenderFailed ==
    [][\A id \in DOMAIN views :
          (Clicked /\ lastEvent'.view = id
                /\ lastEvent'.result = "AlreadyRevealed")
              => ShownOrComing(id, lastEvent'.index)]_vars

\* C30: a key (url, rotated or not) comes into image_cache only in a call
\* in which requests.get for that key brought an image, and stays; a key
\* that is in the cache is not requested again, in this call or a later
\* one; a request that failed leaves no entry; and the card back is
\* requested and cached unrotated only, also for a card that is reversed.
C30_CacheHoldsFetchedImagesOnly ==
    [][LET requested == composite'.requested
           Asked == DOMAIN requested
       IN  composite' # composite =>
            /\ image_cache \subseteq image_cache'
            /\ \A k \in image_cache' \ image_cache :
                  \E n \in Asked : /\ requested[n].key = k
                                   /\ requested[n].response = "image"
            /\ \A n \in Asked :
                  /\ requested[n].key \notin image_cache
                  /\ \A m \in 1..(n - 1) : requested[m].key # requested[n].key
                  /\ requested[n].response \in Failures
                        => requested[n].key \notin image_cache'
            /\ \A k \in image_cache' \cup {requested[n].key : n \in Asked} :
                  k[1] = get_card_back_url => k[2] = FALSE]_vars

\* The back and the face of card 2 are cached and the rotated face of
\* card 1 is not; a hand of two with the first card hidden and reversed and
\* the second revealed was rendered with no request at all, while the
\* network would have failed.
C30_Witness ==
    /\ composite.called /\ composite.img_bytes.made
    /\ composite.requested = <<>>
    /\ composite.cards = <<1, 2>>
    /\ composite.revealed_indices = {2}
    /\ composite.reversed_cards = <<TRUE, FALSE>>
    /\ composite.responses = <<"status", "status">>
    /\ cache_key(get_card_image_url(1), TRUE) \notin image_cache

\* The deck and the undo list of session g are, in this step, what they
\* were: there or not there, and the same lists.
SessionKept(g) ==
    /\ (g \in DOMAIN deck_state') = (g \in DOMAIN deck_state)
    /\ g \in DOMAIN deck_state => deck_state'[g] = deck_state[g]
    /\ (g \in DOMAIN undo_state') = (g \in DOMAIN undo_state)
    /\ g \in DOMAIN undo_state => undo_state'[g].cards = undo_state[g].cards

\* C31: a step of /draw, /pull_clarifier, /undo, /undo_and_shuffle or
\* /shuffle changes the deck and the undo list of one session at most, the
\* session the command was sent in (the guild, or the member when there is
\* no guild); those of every other session are as they were.
C31_SessionsIsolated ==
    [][/\ \A g, h \in SessionIds : g # h => SessionKept(g) \/ SessionKept(h)
       /\ \A g \in SessionIds :
             (lastReply' # lastReply \/ lastOp' # lastOp)
                 => lastReply'.session = g \/ SessionKept(g)]_vars

\* The guild has just shuffled, which emptied its undo list, while the
\* member's own deck has two cards out and the last of them to undo.
C31_Witness ==
    /\ lastReply = Reply(1, "Shuffled")
    /\ 1 \in DOMAIN deck_state /\ 1 \notin DOMAIN undo_state
    /\ 101 \in DOMAIN deck_state /\ Len(deck_state[101]) = NumCards - 2
    /\ 101 \in DOMAIN undo_state /\ Len(undo_state[101].cards) = 1

\* The step that starts a call of the journal: the GET is over and the list
\* to write is built.
CallStarts == journal_call = NoCall /\ journal_call' # NoCall
\* A reading is put into last_readings[u], or the one there is replaced.
ReadingSaved(u) ==
    /\ u \in DOMAIN last_readings'
    /\ u \in DOMAIN last_readings => last_readings'[u] # last_readings[u]

\* C32: only completed readings are journaled.  /journal of a member with
\* no saved reading is answered NoReading, with no request under way after
\* it and the remote list as it was; a call of /journal is started for a
\* member with a saved reading only, and its entry carries the cards of that
\* reading; the remote list gains no entry but the entry of the call that
\* writes; and a reading is saved from a view with every index revealed, as
\* the ordered card/position/reversed triples of the hand it was dealt.
C32_OnlyCompletedJournaled ==
    [][/\ \A u \in Users :
             u \notin DOMAIN last_readings
                 => /\ ~(CallStarts /\ journal_call'[1].user = u)
                    /\ lastJournal' # lastJournal /\ lastJournal'.user = u
                           => /\ lastJournal'.result = "NoReading"
                              /\ UNCHANGED <<remote, journal_call>>
       /\ CallStarts /\ journal_call'[1].cmd = "journal"
             => journal_call'[1].entry.cards =
                    last_readings[journal_call'[1].user].cards
       /\ \A i \in DOMAIN remote'.content :
             \/ remote'.content[i] \in Range(remote.content)
             \/ journal_call # NoCall /\ remote'.content[i] = journal_call[1].entry
       /\ \A u \in Users :
             ReadingSaved(u)
                 => \E id \in DOMAIN views :
                       /\ AllClicked(id)
                       /\ views[id].revealed = 1..Len(dealt[id].cards)
                       /\ last_readings'[u].cards = Triples(dealt[id])]_vars

\* The remote list holds the entry of a reading of two cards, the first one
\* reversed, that a member revealed and journaled; the other member, with no
\* reading, has just been answered NoReading.
C32_Witness ==
    /\ remote.exists /\ Len(remote.content) = 1
    /\ Len(remote.content[1].cards) = 2
    /\ remote.content[1].cards[1].reversed
    /\ lastJournal.result = "NoReading"
    /\ lastJournal.user \notin DOMAIN last_readings

\* C33: no write of the journal loses entries.  A PUT of /journal or of
\* /journal_delete that is accepted was sent with the token of the file as
\* it is at the PUT (no token when there is no file), and the file becomes
\* that list with the entry appended, or that list without the caller's
\* entries of the name, the others in their order; and whatever the answer
\* to the PUT, every entry the file holds at the PUT and the command does
\* not delete is in the file after it: the entries another writer put there
\* after the fetch, and the entries that were there when the fetch failed.
C33_NoWriteLosesEntries ==
    [][SaveStep =>
          LET call == journal_call[1]
              current == Entries(remote)
              kept == IF call.cmd = "journal" THEN DOMAIN current
                      ELSE OthersIn(current, call.user, call.entry.name)
          IN  /\ (remote' # remote \/ lastJournal'.result # "Failed") =>
                    /\ call.sha = get_journals_from_github(remote, TRUE)[2]
                    /\ remote'.exists
                    /\ call.cmd = "journal"
                          => remote'.content = Append(current, call.entry)
                    /\ call.cmd = "journal_delete"
                          => /\ Len(remote'.content) = Cardinality(kept)
                             /\ Cardinality(kept) < Len(current)
                             /\ \A k \in 1..Cardinality(kept) :
                                   remote'.content[k] = current[Kth(kept, k)]
              /\ \A i \in kept : current[i] \in Range(Entries(remote'))]_vars

\* /journal of the first owner has added its entry behind the entry of
\* another writer and the entry of the other process.
C33_Witness ==
    /\ lastJournal = [result |-> "Saved", user |-> 101]
    /\ remote.exists /\ Len(remote.content) = 3
    /\ remote.content[1] = ForeignEntry
    /\ remote.content[2].user_id = 102
    /\ remote.content[3].user_id = 101

\* C34: the statistics count each reading once.  reading_stats changes only
\* in a step of a view with every index revealed whose reading has not been
\* counted before, and the step adds one to total_readings, one to the
\* counter of the day, one to the counter of the person read for, and one
\* for each card of the hand.
C34_EachReadingCountedOnce ==
    [][reading_stats' # reading_stats
          => \E id \in DOMAIN views :
                /\ AllClicked(id)
                /\ Saved(id) = 0
                /\ reading_stats' =
                       track_reading(reading_stats, dealt[id].cards,
                                     views[id].for_user, today)]_vars
\* The parts of C34 that hold: the counters never move for a view with a
\* hidden card, and a step that counts adds exactly one reading.
C34_CountsFullRevealsByOne ==
    [][reading_stats' # reading_stats
          => \E id \in DOMAIN views :
                /\ AllClicked(id)
                /\ reading_stats'.total_readings =
                       reading_stats.total_readings + 1]_vars

\* C35: when no reveal callback of a view is under way, every composite
\* having been made and every edit applied, the composite on the view's
\* message shows face up exactly the indices of the view's revealed set.
C35_LastCompositeShowsRevealed ==
    \A id \in DOMAIN views :
        Settled(id) => views[id].shown = views[id].revealed
\* The part of C35 that holds: the composite on the message never shows a
\* card that is not in the revealed set, and each edit applies the composite
\* its callback made, of the cards revealed when it was made.
C35_CompositeWithinRevealed ==
    /\ [](\A id \in DOMAIN views : views[id].shown \subseteq views[id].revealed)
    /\ [][\A id \in DOMAIN views' \cap DOMAIN views :
             views'[id].shown # views[id].shown
                 => \E k \in DOMAIN callbacks \ DOMAIN callbacks' :
                       /\ k[1] = id /\ k[2] \in callbacks[k].footer
                       /\ views'[id].shown = callbacks[k].footer]_vars

\* The consecutive days, ending with day n, that are all among the days.
RECURSIVE Run(_, _)
Run(days, n) == IF n \notin days THEN 0 ELSE 1 + Run(days, n - 1)

\* C36: for every today and every set of days with readings, the streak of
\* /reading_stats is computed without an error and is the number of
\* consecutive calendar days, ending today, that each have a reading.
C36_StreakIsTheRunOfDays ==
    (lastEvent.kind = "reading_stats" /\ lastEvent.result # "NoReadings")
        => /\ ~lastEvent.error
           /\ lastEvent.streak = Run(DOMAIN reading_stats.readings_by_date, today)
\* The part of C36 that holds: on a day that is not the first of a month,
\* with its readings all of this month, the streak is computed and is the
\* run of days.
C36_StreakWithinTheMonth ==
    (/\ lastEvent.kind = "reading_stats" /\ lastEvent.result # "NoReadings"
     /\ \A n \in DOMAIN reading_stats.readings_by_date :
           /\ fromordinal(n).month = fromordinal(today).month
           /\ fromordinal(n).day > 1)
        => /\ ~lastEvent.error
           /\ lastEvent.streak = Run(DOMAIN reading_stats.readings_by_date, today)
====
